---- MODULE Spec2Model ----
(***************************************************************************)
(* A model of notifyxsoverlay's notification forwarding engine: the        *)
(* filter/learning decision (bridge.py NotificationFilter), the session    *)
(* reset and the durable config store (config.py), the dedup cache         *)
(* (bridge.py _prune_seen) and the bridge loop (bridge.py run_bridge).     *)
(*                                                                         *)
(* Python values that travel through json are modelled as tagged records   *)
(* [t |-> tag, v |-> payload]: a dict is a function from key strings to    *)
(* values, a list is a sequence of values.  Numbers are held in tenths     *)
(* (3.0 is Num(30)).                                                       *)
(***************************************************************************)
EXTENDS Integers, Sequences, FiniteSets, TLC

VARIABLES
    config,     \* the in-memory config dict (run_bridge's `config`, the tests' config)
    last,       \* the last operation performed: its name, inputs, pre-state and return value
    granted,    \* history: source keys that got learning_allow since the last effective reset
    seen,       \* the dedup cache, a dict in insertion order: sequence of [key, ts]
    fs,         \* the config directory: primary, backup, temp and corrupt files
    loop,       \* run_bridge's control point and locals
    env,        \* what surrounds the process: the notification center, the clock
    hist        \* history of the run: sends and cache evictions per record

vars == <<config, last, granted, seen, fs, loop, env, hist>>
\* the variables only run_bridge uses
loopvars == <<loop, env, hist>>

-----------------------------------------------------------------------------
(* Bounds of the model *)

\* number of application source keys besides the default allow entry
MaxApps == 1
\* readings of datetime.now() are drawn from 1..MaxTime
MaxTime == 1
\* the config directory sees at most MaxWrites writes (the file system clock)
MaxWrites == 2
\* the notification center receives at most MaxRecords notifications in a run
MaxRecords == 2
\* run_bridge polls the notification source at most MaxPolls times
MaxPolls == 3
\* a run of the bridge meets at most MaxFaults disturbances: a failing file
\* operation, poll or send, an edit of the config file from outside, a suspend
MaxFaults == 1
\* _send_xs_notification is called at most MaxSends times on one connection slot
MaxSends == 3
\* readings of time.time() are drawn from 0..MaxClock
MaxClock == 2
\* the dedup cache handed to _prune_seen holds at most MaxSeen entries
MaxSeen == 3
\* pieces of a URL's text
MaxUrlLen == 3
\* time passes at most MaxSleeps times between the calls on one connection slot
MaxSleeps == 2
\* configured numbers range over -MaxNum..MaxNum tenths
MaxNum == 12
\* calls of acquire_single_instance in one process
MaxCalls == 3

-----------------------------------------------------------------------------
(* JSON / Python values *)

Null == [t |-> "null", v |-> "null"]
Bool(b) == [t |-> "bool", v |-> b]
Str(s) == [t |-> "str", v |-> s]
Num(n) == [t |-> "num", v |-> n]
List(s) == [t |-> "list", v |-> s]
Dict(f) == [t |-> "dict", v |-> f]

\* what a lookup of a key a dict does not hold yields in the properties
Absent == [t |-> "absent", v |-> "absent"]

EmptyDict == Dict([k \in {} |-> Null])
EmptyList == List(<<>>)

IsDict(x) == x.t = "dict"
IsList(x) == x.t = "list"

\* d[k] for a dict d
Get(d, k) == d.v[k]
\* k in d
Has(d, k) == k \in DOMAIN d.v
\* d.get(k, default)
GetOr(d, k, default) == IF Has(d, k) THEN d.v[k] ELSE default
\* d[k] = x
Put(d, k, x) == Dict([j \in (DOMAIN d.v) \cup {k} |-> IF j = k THEN x ELSE d.v[j]])
\* d.pop(k, None) / del d[k]
Del(d, k) == Dict([j \in (DOMAIN d.v) \ {k} |-> d.v[j]])
\* set(list)
ListSet(l) == {l.v[i] : i \in 1..Len(l.v)}

\* the elements of a finite set in some order
RECURSIVE SetToSeq(_)
SetToSeq(S) ==
    IF S = {} THEN <<>>
    ELSE LET x == CHOOSE y \in S : TRUE IN <<x>> \o SetToSeq(S \ {x})

\* Python truth value of a JSON value
Truthy(x) ==
    CASE x.t = "null" -> FALSE
      [] x.t = "bool" -> x.v
      [] x.t = "str" -> Len(x.v) > 0
      [] x.t = "num" -> x.v # 0
      [] x.t = "list" -> Len(x.v) > 0
      [] x.t = "dict" -> DOMAIN x.v # {}

\* datetime.now().isoformat() for the clock reading t
IsoFormat(t) == Str("T" \o ToString(t))

Times == 1..MaxTime

-----------------------------------------------------------------------------
(* app.py / config.py constants *)

APP_NAME == "NotifyXSOverlay"
\* The text of a URL is the sequence of its pieces: the marks "?" and "&", the
\* text "client=", and the stretches of other characters between them.
UrlBase == "ws://127.0.0.1:42070/"
\* f"ws://127.0.0.1:42070/?client={APP_NAME}"
DEFAULT_WS_URL == <<UrlBase, "?", "client=", APP_NAME>>
DiscordKey == "com.squirrel.Discord.Discord"

\* source keys of notifications: the default allow entry and MaxApps others
Keys == {DiscordKey} \cup {"app" \o ToString(i) : i \in 1..MaxApps}
\* the display name the notification source reports for a source key: the
\* default allow entry has one, the other applications have none ("")
DisplayName(k) == IF k = DiscordKey THEN "Discord" ELSE ""

default_config ==
    Dict([k \in {"filters", "learning", "xs_overlay", "poll_interval_seconds"} |->
        CASE k = "filters" ->
                Dict([j \in {"allow", "block"} |->
                    IF j = "allow" THEN List(<<Str(DiscordKey)>>) ELSE EmptyList])
          [] k = "learning" ->
                Dict([j \in {"enabled", "last_reset", "pending", "shown_session"} |->
                    CASE j = "enabled" -> Bool(TRUE)
                      [] j = "last_reset" -> Null
                      [] j = "pending" -> EmptyDict
                      [] j = "shown_session" -> EmptyDict])
          [] k = "xs_overlay" ->
                Dict([j \in {"ws_url", "notification_timeout_seconds",
                             "notification_opacity"} |->
                    CASE j = "ws_url" -> Str(DEFAULT_WS_URL)
                      [] j = "notification_timeout_seconds" -> Num(30)
                      [] j = "notification_opacity" -> Num(6)])
          [] k = "poll_interval_seconds" -> Num(10)])

-----------------------------------------------------------------------------
(* bridge.py: FilterDecision, NotificationFilter *)

FilterDecision(allow, reason, updated) ==
    [allow |-> allow, reason |-> reason, updated |-> updated]

\* NotificationFilter.__init__: the views of the config the filter keeps
filter_allow_list(cfg) == ListSet(GetOr(GetOr(cfg, "filters", EmptyDict), "allow", EmptyList))
filter_block_list(cfg) == ListSet(GetOr(GetOr(cfg, "filters", EmptyDict), "block", EmptyList))
filter_learning(cfg) == GetOr(cfg, "learning", EmptyDict)

\* the config after the filter mutated its learning dict in place: the dict
\* is the config's own only when the config has the key
WithLearning(cfg, learning) ==
    IF Has(cfg, "learning") THEN Put(cfg, "learning", learning) ELSE cfg

\* a learning branch that grants the trial without recording it in shown_session
evaluate_learning_unrecorded(cfg, app_key, display_name, now) ==
    LET learning == filter_learning(cfg)
        pending == GetOr(learning, "pending", EmptyDict)
        changed == ~Has(pending, app_key)
        learning1 == Put(learning, "pending",
                         IF changed THEN Put(pending, app_key, Str(app_key)) ELSE pending)
        shown_session == GetOr(learning1, "shown_session", EmptyDict)
    IN  IF ~Has(shown_session, app_key)
        THEN [decision |-> FilterDecision(TRUE, "learning_allow", TRUE),
              config |-> WithLearning(cfg, learning1)]
        ELSE [decision |-> FilterDecision(FALSE, "learning_suppress", changed),
              config |-> WithLearning(cfg, learning1)]

\* a learning branch that reports a mutation only when it granted the trial
evaluate_learning_unflagged(cfg, app_key, display_name, now) ==
    LET learning == filter_learning(cfg)
        pending == GetOr(learning, "pending", EmptyDict)
        pending1 == IF ~Has(pending, app_key)
                    THEN Put(pending, app_key,
                             Str(IF display_name # "" THEN display_name ELSE app_key))
                    ELSE pending
        learning1 == Put(learning, "pending", pending1)
        shown_session == GetOr(learning1, "shown_session", EmptyDict)
        learning2 == Put(learning1, "shown_session", shown_session)
    IN  IF ~Has(shown_session, app_key)
        THEN [decision |-> FilterDecision(TRUE, "learning_allow", TRUE),
              config |-> WithLearning(cfg,
                  Put(learning2, "shown_session",
                      Put(shown_session, app_key, IsoFormat(now))))]
        ELSE [decision |-> FilterDecision(FALSE, "learning_suppress", FALSE),
              config |-> WithLearning(cfg, learning2)]

\* a learning branch that records the trial in shown_session without entering
\* the key in pending
evaluate_learning_unpended(cfg, app_key, display_name, now) ==
    LET learning == filter_learning(cfg)
        pending == GetOr(learning, "pending", EmptyDict)
        learning1 == Put(learning, "pending", pending)
        shown_session == GetOr(learning1, "shown_session", EmptyDict)
        learning2 == Put(learning1, "shown_session", shown_session)
    IN  IF ~Has(shown_session, app_key)
        THEN [decision |-> FilterDecision(TRUE, "learning_allow", TRUE),
              config |-> WithLearning(cfg,
                  Put(learning2, "shown_session",
                      Put(shown_session, app_key, IsoFormat(now))))]
        ELSE [decision |-> FilterDecision(FALSE, "learning_suppress", FALSE),
              config |-> WithLearning(cfg, learning2)]

\* evaluate, lines 214-224: the learning branch, taken for a key in neither list
\* while learning.enabled is true
evaluate_learning(cfg, app_key, display_name, now) ==
    LET learning == filter_learning(cfg)
        pending == GetOr(learning, "pending", EmptyDict)
        changed == ~Has(pending, app_key)
        pending1 == IF changed
                    THEN Put(pending, app_key,
                             Str(IF display_name # "" THEN display_name ELSE app_key))
                    ELSE pending
        learning1 == Put(learning, "pending", pending1)
        shown_session == GetOr(learning1, "shown_session", EmptyDict)
        learning2 == Put(learning1, "shown_session", shown_session)
    IN  IF ~Has(shown_session, app_key)
        THEN [decision |-> FilterDecision(TRUE, "learning_allow", TRUE),
              config |-> WithLearning(cfg,
                  Put(learning2, "shown_session",
                      Put(shown_session, app_key, IsoFormat(now))))]
        ELSE [decision |-> FilterDecision(FALSE, "learning_suppress", changed),
              config |-> WithLearning(cfg, learning2)]

\* an unlisted branch that lets every key through
evaluate_unlisted_open(cfg) ==
    [decision |-> FilterDecision(TRUE, "default_allow", FALSE), config |-> cfg]

\* evaluate, lines 226-228: a key in neither list while learning is disabled
evaluate_unlisted(cfg) ==
    IF filter_allow_list(cfg) # {}
    THEN [decision |-> FilterDecision(FALSE, "not_in_allow", FALSE), config |-> cfg]
    ELSE [decision |-> FilterDecision(TRUE, "default_allow", FALSE), config |-> cfg]

\* an evaluate that consults the allow list before the block list
evaluate_allow_first(cfg, app_key, display_name, now) ==
    IF Str(app_key) \in filter_allow_list(cfg)
    THEN [decision |-> FilterDecision(TRUE, "allowed", FALSE), config |-> cfg]
    ELSE IF Str(app_key) \in filter_block_list(cfg)
    THEN [decision |-> FilterDecision(FALSE, "blocked", FALSE), config |-> cfg]
    ELSE IF Truthy(GetOr(filter_learning(cfg), "enabled", Bool(TRUE)))
    THEN evaluate_learning(cfg, app_key, display_name, now)
    ELSE evaluate_unlisted(cfg)

\* NotificationFilter(config).evaluate(app_key, display_name) at clock reading now:
\* the decision and the config as the call leaves it
evaluate(cfg, app_key, display_name, now) ==
    IF Str(app_key) \in filter_block_list(cfg)
    THEN [decision |-> FilterDecision(FALSE, "blocked", FALSE), config |-> cfg]
    ELSE IF Str(app_key) \in filter_allow_list(cfg)
    THEN [decision |-> FilterDecision(TRUE, "allowed", FALSE), config |-> cfg]
    ELSE IF Truthy(GetOr(filter_learning(cfg), "enabled", Bool(TRUE)))
    THEN evaluate_learning(cfg, app_key, display_name, now)
    ELSE evaluate_unlisted(cfg)

-----------------------------------------------------------------------------
(* config.py: reset_learning_state *)

\* a reset that clears shown_session but never stores the session id
reset_learning_state_unmarked(cfg, session_id) ==
    LET learning == GetOr(cfg, "learning", EmptyDict)
    IN  IF GetOr(learning, "last_reset", Null) # session_id
        THEN [ret |-> TRUE,
              config |-> WithLearning(cfg, Put(learning, "shown_session", EmptyDict))]
        ELSE [ret |-> FALSE, config |-> cfg]

\* reset_learning_state(config, session_id): the return value and the config
\* as the call leaves it
reset_learning_state(cfg, session_id) ==
    LET learning == GetOr(cfg, "learning", EmptyDict)
    IN  IF GetOr(learning, "last_reset", Null) # session_id
        THEN [ret |-> TRUE,
              config |-> WithLearning(cfg,
                  Put(Put(learning, "last_reset", session_id),
                      "shown_session", EmptyDict))]
        ELSE [ret |-> FALSE, config |-> cfg]

-----------------------------------------------------------------------------
(* config.py: the config store *)

\* The text of a file is either a JSON document (the value it parses to) or
\* text json.loads rejects.  A file is [exists, text, mtime]; the directory
\* holds the primary config.json, its .bak, .tmp and .corrupt siblings, and
\* the file system's clock, which stamps every write.

\* A JSON document is the tree of its text: an object is the sequence of its
\* members [name, value] in the order written, an array the sequence of its
\* items, and true, false and null are literals.

\* the JSON text of a Python value: a dict writes its keys in iteration order
RECURSIVE json_encode(_)
json_encode(obj) ==
    CASE obj.t = "dict" ->
            [t |-> "object",
             v |-> LET names == SetToSeq(DOMAIN obj.v)
                   IN  [i \in 1..Len(names) |->
                          [name |-> names[i], value |-> json_encode(obj.v[names[i]])]]]
      [] obj.t = "list" ->
            [t |-> "array", v |-> [i \in 1..Len(obj.v) |-> json_encode(obj.v[i])]]
      [] obj.t = "str" -> [t |-> "string", v |-> obj.v]
      [] obj.t = "num" -> [t |-> "number", v |-> obj.v]
      [] obj.t = "bool" -> [t |-> IF obj.v THEN "true" ELSE "false", v |-> <<>>]
      [] obj.t = "null" -> [t |-> "null", v |-> <<>>]

\* the Python value of a JSON text: of two members with one name the later wins
RECURSIVE json_decode(_)
json_decode(doc) ==
    CASE doc.t = "object" ->
            Dict([name \in {doc.v[i].name : i \in 1..Len(doc.v)} |->
                    json_decode(doc.v[CHOOSE i \in 1..Len(doc.v) :
                                        /\ doc.v[i].name = name
                                        /\ \A n \in (i + 1)..Len(doc.v) :
                                              doc.v[n].name # name].value)])
      [] doc.t = "array" -> List([i \in 1..Len(doc.v) |-> json_decode(doc.v[i])])
      [] doc.t = "string" -> Str(doc.v)
      [] doc.t = "number" -> Num(doc.v)
      [] doc.t = "true" -> Bool(TRUE)
      [] doc.t = "false" -> Bool(FALSE)
      [] doc.t = "null" -> Null

\* a serializer that writes None as the string "None"
RECURSIVE json_encode_pynone(_)
json_encode_pynone(obj) ==
    CASE obj.t = "dict" ->
            [t |-> "object",
             v |-> LET names == SetToSeq(DOMAIN obj.v)
                   IN  [i \in 1..Len(names) |->
                          [name |-> names[i],
                           value |-> json_encode_pynone(obj.v[names[i]])]]]
      [] obj.t = "null" -> [t |-> "string", v |-> "None"]
      [] OTHER -> json_encode(obj)
json_dumps_pynone(data) == [kind |-> "json", value |-> json_encode_pynone(data)]

\* json.dumps(data, indent=2, ensure_ascii=False)
json_dumps(data) == [kind |-> "json", value |-> json_encode(data)]
\* json.loads(text) of a text that is JSON
json_loads(text) == json_decode(text.value)
\* text that is not JSON
Garbage == [kind |-> "garbage", value |-> Null]

NoFile == [exists |-> FALSE, text |-> Garbage, mtime |-> 0]
FileOf(text, mtime) == [exists |-> TRUE, text |-> text, mtime |-> mtime]

\* _read_json(path): the parsed dict, or None (ok = FALSE) when the file cannot
\* be read, is not JSON or is not a JSON object
_read_json(file) ==
    IF file.exists /\ file.text.kind = "json" /\ IsDict(json_loads(file.text))
    THEN [ok |-> TRUE, data |-> json_loads(file.text)]
    ELSE [ok |-> FALSE, data |-> Null]

RECURSIVE _deep_merge(_, _)
\* _deep_merge(defaults, data) for two dicts
_deep_merge(defaults, data) ==
    Dict([key \in (DOMAIN defaults.v) \cup (DOMAIN data.v) |->
        IF key \in DOMAIN defaults.v
        THEN IF key \in DOMAIN data.v
             THEN IF IsDict(defaults.v[key]) /\ IsDict(data.v[key])
                  THEN _deep_merge(defaults.v[key], data.v[key])
                  ELSE data.v[key]
             ELSE defaults.v[key]
        ELSE data.v[key]])

\* a normalize that merges the defaults and leaves every value as loaded
normalize_config_unsanitized(data) ==
    [raised |-> FALSE, value |-> _deep_merge(default_config, data)]

\* normalize_config(data): the normalized config, or raised = TRUE where the
\* code calls .get on a filters or learning value that is not a dict
normalize_config(data) ==
    LET merged == _deep_merge(default_config, data)
        filters == GetOr(merged, "filters", EmptyDict)
        filters1 == IF ~IsList(GetOr(filters, "allow", Null))
                    THEN Put(filters, "allow", EmptyList) ELSE filters
        filters2 == IF ~IsList(GetOr(filters1, "block", Null))
                    THEN Put(filters1, "block", EmptyList) ELSE filters1
        learning == GetOr(merged, "learning", EmptyDict)
        learning1 == IF ~IsDict(GetOr(learning, "pending", Null))
                     THEN Put(learning, "pending", EmptyDict) ELSE learning
        shown_legacy == GetOr(learning1, "shown_today", Null)
        learning2 == IF ~IsDict(GetOr(learning1, "shown_session", Null))
                     THEN Put(learning1, "shown_session",
                              IF IsDict(shown_legacy) THEN shown_legacy ELSE EmptyDict)
                     ELSE learning1
        learning3 == IF Has(learning2, "shown_today")
                     THEN Del(learning2, "shown_today") ELSE learning2
    IN  IF ~IsDict(filters) \/ ~IsDict(learning)
        THEN [raised |-> TRUE, value |-> Null]
        ELSE [raised |-> FALSE,
              value |-> Put(Put(merged, "filters", filters2), "learning", learning3)]

\* The steps of _write_text_atomic that can fail, as the faults of one call:
\*   mkdir         path.parent.mkdir raises
\*   tmp_write     tmp_path.write_text raises, leaving a truncated temp file
\*   copy_open     shutil.copyfile raises before it touches the backup
\*   copy_partial  shutil.copyfile raises, leaving a partly written backup
\*   replace       tmp_path.replace raises
Faults == {"mkdir", "tmp_write", "copy_open", "copy_partial", "replace"}

\* a writer that replaces the primary first and copies it to the backup after
_write_text_atomic_replace_first(dir, content, backup, F) ==
    LET stamp == dir.clock + 1
        tmp == FileOf(content, stamp)
        copying == backup /\ dir.primary.exists
        copy_failed == copying /\ (F \cap {"copy_open", "copy_partial"} # {})
        backup1 == IF ~copying \/ "copy_open" \in F THEN dir.backup
                   ELSE IF "copy_partial" \in F THEN FileOf(Garbage, stamp)
                   ELSE FileOf(content, stamp)
        log == IF copy_failed THEN <<"config_backup_failed">> ELSE <<>>
    IN  IF "mkdir" \in F
        THEN [raised |-> TRUE, fs |-> dir, log |-> <<>>]
        ELSE IF "tmp_write" \in F
        THEN [raised |-> TRUE, log |-> <<>>,
              fs |-> [dir EXCEPT !.tmp = FileOf(Garbage, stamp), !.clock = stamp]]
        ELSE IF "replace" \in F
        THEN [raised |-> TRUE, log |-> <<>>,
              fs |-> [dir EXCEPT !.tmp = tmp, !.clock = stamp]]
        ELSE [raised |-> FALSE, log |-> log,
              fs |-> [dir EXCEPT !.tmp = NoFile, !.backup = backup1,
                                 !.primary = tmp, !.clock = stamp]]

\* a writer that lets a failing backup copy end the call
_write_text_atomic_copy_fatal(dir, content, backup, F) ==
    LET stamp == dir.clock + 1
        tmp == FileOf(content, stamp)
        copying == backup /\ dir.primary.exists
        copy_failed == copying /\ (F \cap {"copy_open", "copy_partial"} # {})
        backup1 == IF ~copying \/ "copy_open" \in F THEN dir.backup
                   ELSE IF "copy_partial" \in F THEN FileOf(Garbage, stamp)
                   ELSE FileOf(dir.primary.text, stamp)
    IN  IF "mkdir" \in F
        THEN [raised |-> TRUE, fs |-> dir, log |-> <<>>]
        ELSE IF "tmp_write" \in F
        THEN [raised |-> TRUE, log |-> <<>>,
              fs |-> [dir EXCEPT !.tmp = FileOf(Garbage, stamp), !.clock = stamp]]
        ELSE IF copy_failed \/ "replace" \in F
        THEN [raised |-> TRUE, log |-> <<>>,
              fs |-> [dir EXCEPT !.tmp = tmp, !.backup = backup1, !.clock = stamp]]
        ELSE [raised |-> FALSE, log |-> <<>>,
              fs |-> [dir EXCEPT !.tmp = NoFile, !.backup = backup1,
                                 !.primary = tmp, !.clock = stamp]]

\* _write_text_atomic(path, content, backup) under the faults F: the directory
\* as the call leaves it, whether it raised, and what it logged
_write_text_atomic(dir, content, backup, F) ==
    LET stamp == dir.clock + 1
        tmp == FileOf(content, stamp)
        copying == backup /\ dir.primary.exists
        copy_failed == copying /\ (F \cap {"copy_open", "copy_partial"} # {})
        backup1 == IF ~copying \/ "copy_open" \in F THEN dir.backup
                   ELSE IF "copy_partial" \in F THEN FileOf(Garbage, stamp)
                   ELSE FileOf(dir.primary.text, stamp)
        log == IF copy_failed THEN <<"config_backup_failed">> ELSE <<>>
    IN  IF "mkdir" \in F
        THEN [raised |-> TRUE, fs |-> dir, log |-> <<>>]
        ELSE IF "tmp_write" \in F
        THEN [raised |-> TRUE, log |-> <<>>,
              fs |-> [dir EXCEPT !.tmp = FileOf(Garbage, stamp), !.clock = stamp]]
        ELSE IF "replace" \in F
        THEN [raised |-> TRUE, log |-> log,
              fs |-> [dir EXCEPT !.tmp = tmp, !.backup = backup1, !.clock = stamp]]
        ELSE [raised |-> FALSE, log |-> log,
              fs |-> [dir EXCEPT !.tmp = NoFile, !.backup = backup1,
                                 !.primary = tmp, !.clock = stamp]]

\* a save without the try/except around the write
save_config_unguarded(dir, data, F) ==
    LET w == _write_text_atomic(dir, json_dumps(data), TRUE, F)
    IN  [raised |-> w.raised, data |-> data, fs |-> w.fs, log |-> w.log]

\* save_config(path, data) under the faults F: whether the call raised, the
\* dict passed in as the call leaves it, the directory afterwards and the log
save_config(dir, data, F) ==
    LET w == _write_text_atomic(dir, json_dumps(data), TRUE, F)
    IN  [raised |-> FALSE, data |-> data, fs |-> w.fs,
         log |-> IF w.raised THEN w.log \o <<"config_save_failed">> ELSE w.log]

\* The places of save_config where the process can stop, named by the last
\* thing it did to the directory:
\*   mkdir         the parent directory exists, nothing is written yet
\*   tmp_partial   tmp_path.write_text has written a part of the text
\*   tmp_written   the temporary file is complete
\*   copy_partial  shutil.copyfile has written a part of the backup
\*   copy_done     the backup is complete, the replace has not run
\*   replaced      tmp_path.replace(path) has run
StopPoints == {"mkdir", "tmp_partial", "tmp_written", "copy_partial", "copy_done",
               "replaced"}
CopyPoints == {"copy_partial", "copy_done"}

\* a save that writes the text into the primary itself
save_config_stopped_in_place(dir, data, point) ==
    LET stamp == dir.clock + 1
        written == FileOf(json_dumps(data), stamp)
        backup1 == IF ~dir.primary.exists THEN dir.backup
                   ELSE FileOf(dir.primary.text, stamp)
    IN  IF point = "mkdir" THEN dir
        ELSE IF point = "tmp_partial"
        THEN [dir EXCEPT !.primary = FileOf(Garbage, stamp), !.clock = stamp]
        ELSE IF point = "copy_partial"
        THEN [dir EXCEPT !.primary = written, !.backup = FileOf(Garbage, stamp),
                         !.clock = stamp]
        ELSE IF point \in {"copy_done", "replaced"}
        THEN [dir EXCEPT !.primary = written, !.backup = backup1, !.clock = stamp]
        ELSE [dir EXCEPT !.primary = written, !.clock = stamp]

\* the directory a process leaves that stops inside save_config(path, data) at
\* the point given; a part of a JSON text is a text that does not parse, and
\* the replace is one step of the file system
save_config_stopped(dir, data, point) ==
    LET stamp == dir.clock + 1
        tmp == FileOf(json_dumps(data), stamp)
        backup1 == IF ~dir.primary.exists THEN dir.backup
                   ELSE FileOf(dir.primary.text, stamp)
    IN  IF point = "mkdir" THEN dir
        ELSE IF point = "tmp_partial"
        THEN [dir EXCEPT !.tmp = FileOf(Garbage, stamp), !.clock = stamp]
        ELSE IF point = "tmp_written"
        THEN [dir EXCEPT !.tmp = tmp, !.clock = stamp]
        ELSE IF point = "copy_partial"
        THEN [dir EXCEPT !.tmp = tmp, !.backup = FileOf(Garbage, stamp),
                         !.clock = stamp]
        ELSE IF point = "copy_done"
        THEN [dir EXCEPT !.tmp = tmp, !.backup = backup1, !.clock = stamp]
        ELSE [dir EXCEPT !.tmp = NoFile, !.backup = backup1, !.primary = tmp,
                         !.clock = stamp]

\* the absent fallback argument of load_config
NoFallback == [given |-> FALSE, value |-> Null]
Fallback(cfg) == [given |-> TRUE, value |-> cfg]

\* a restore that hands back and writes the backup document as it was read
load_config_restore_raw(dir, backup_data, F) ==
    LET w == _write_text_atomic(dir, json_dumps(backup_data), FALSE, F)
    IN  [raised |-> FALSE, value |-> backup_data, fs |-> w.fs,
         log |-> w.log \o (IF w.raised THEN <<"config_restore_failed">>
                           ELSE <<"config_restore">>)]

\* load_config, lines 103-116: the primary is corrupt and the backup parsed to
\* backup_data; the restore write runs under the faults F
load_config_restore(dir, backup_data, F) ==
    LET normalized == normalize_config(backup_data)
        w == _write_text_atomic(dir, json_dumps(normalized.value), FALSE, F)
    IN  IF normalized.raised
        THEN [raised |-> TRUE, value |-> Null, fs |-> dir, log |-> <<>>]
        ELSE [raised |-> FALSE, value |-> normalized.value, fs |-> w.fs,
              log |-> w.log \o (IF w.raised THEN <<"config_restore_failed">>
                                ELSE <<"config_restore">>)]

\* an invalid-config exit that always falls back to the defaults
load_config_invalid_defaults(dir, fallback) ==
    [raised |-> FALSE, value |-> default_config, fs |-> dir,
     log |-> <<"config_invalid">>]

\* load_config, lines 117-120: the primary is corrupt and there is no usable backup
load_config_invalid(dir, fallback) ==
    [raised |-> FALSE,
     value |-> IF fallback.given THEN fallback.value ELSE default_config,
     fs |-> dir, log |-> <<"config_invalid">>]

\* load_config(path, fallback) under the faults F of its restore write: the
\* value returned (or raised = TRUE when normalize_config raises), the directory
\* afterwards and the log
load_config(dir, fallback, F) ==
    LET data == _read_json(dir.primary)
        backup_data == IF dir.backup.exists THEN _read_json(dir.backup)
                       ELSE [ok |-> FALSE, data |-> Null]
    IN  IF ~dir.primary.exists
        THEN [raised |-> FALSE, value |-> default_config, fs |-> dir, log |-> <<>>]
        ELSE IF data.ok
        THEN [raised |-> normalize_config(data.data).raised,
              value |-> normalize_config(data.data).value, fs |-> dir, log |-> <<>>]
        ELSE IF backup_data.ok
        THEN load_config_restore(dir, backup_data.data, F)
        ELSE load_config_invalid(dir, fallback)

-----------------------------------------------------------------------------
(* bridge.py: the dedup cache and _prune_seen *)

\* The cache is a Python dict, which keeps insertion order: a sequence of
\* entries [key, ts] with distinct keys.

\* key in seen
InSeen(s, key) == \E i \in 1..Len(s) : s[i].key = key
\* a loop that forgets to record the identity of the record it handles
MarkSeen_unmarked(s, key, ts) == s

\* seen[key] = ts for a key not in seen
MarkSeen(s, key, ts) == Append(s, [key |-> key, ts |-> ts])

\* insert e into the ts-sorted sequence s behind every entry with ts <= e.ts
RECURSIVE InsertByTs(_, _)
InsertByTs(e, s) ==
    IF s = <<>> THEN <<e>>
    ELSE IF e.ts < Head(s).ts THEN <<e>> \o s
    ELSE <<Head(s)>> \o InsertByTs(e, Tail(s))

\* sorted(seen.items(), key=lambda item: item[1]): stable, oldest first
RECURSIVE SortedByTs(_)
SortedByTs(s) ==
    IF s = <<>> THEN <<>>
    ELSE InsertByTs(s[Len(s)], SortedByTs(SubSeq(s, 1, Len(s) - 1)))

\* the first loop of _prune_seen: the entries not older than max_age_seconds
PruneByAge(s, now, max_age_seconds) ==
    SelectSeq(s, LAMBDA e : ~(now - e.ts > max_age_seconds))

\* a prune whose size trim deletes from the newest end of the sorted entries
_prune_seen_newest(s, now, max_age_seconds, max_size) ==
    LET aged == PruneByAge(s, now, max_age_seconds)
        sorted == SortedByTs(aged)
        excess == Len(aged) - max_size
        victims == IF Len(aged) > max_size
                   THEN {sorted[i].key : i \in (Len(sorted) - excess + 1)..Len(sorted)}
                   ELSE {}
    IN  SelectSeq(aged, LAMBDA e : e.key \notin victims)

\* _prune_seen(seen, max_age_seconds, max_size) with time.time() reading now:
\* the cache as the call leaves it
_prune_seen(s, now, max_age_seconds, max_size) ==
    LET aged == PruneByAge(s, now, max_age_seconds)
        sorted == SortedByTs(aged)
        victims == IF Len(aged) > max_size
                   THEN {sorted[i].key : i \in 1..(Len(aged) - max_size)}
                   ELSE {}
    IN  SelectSeq(aged, LAMBDA e : e.key \notin victims)

-----------------------------------------------------------------------------
(* bridge.py: the transport sender *)

\* endpoint URLs of the model besides the default: one without a query string
\* and one with a query string that has no client parameter
UrlPlain == <<UrlBase>>
UrlQuery == <<UrlBase, "?", "a=b">>
\* "?client=" in ws_url or "&client=" in ws_url
HasClientParam(ws_url) ==
    \E i \in 1..(Len(ws_url) - 1) : ws_url[i] \in {"?", "&"} /\ ws_url[i + 1] = "client="
\* "?" in ws_url
HasQuery(ws_url) == \E i \in 1..Len(ws_url) : ws_url[i] = "?"

\* a normalization that appends the parameter to every URL
_ensure_client_param_always(ws_url) ==
    ws_url \o <<IF HasQuery(ws_url) THEN "&" ELSE "?", "client=", APP_NAME>>

\* _ensure_client_param(ws_url)
_ensure_client_param(ws_url) ==
    IF HasClientParam(ws_url) THEN ws_url
    ELSE ws_url \o <<IF HasQuery(ws_url) THEN "&" ELSE "?", "client=", APP_NAME>>

\* the connection handle: None, or a connection to url that is open or closed
NoSocket == [conn |-> FALSE, url |-> <<>>, closed |-> TRUE]
Socket(url) == [conn |-> TRUE, url |-> url, closed |-> FALSE]

\* What the transport does to one call of _send_xs_notification:
\*   ok                the frame is sent
\*   send_fails        websocket.send raises, websocket.close returns
\*   send_close_fails  websocket.send raises and websocket.close raises too
\*   connect_fails     websockets.connect raises (only when a connection is needed)
\*   import_fails      import websockets raises
SendOutcomes == {"ok", "send_fails", "send_close_fails", "connect_fails", "import_fails"}

\* websocket is None or getattr(websocket, "closed", False)
NeedsConnect(websocket) == ~websocket.conn \/ websocket.closed

\* a sender that hands the failed connection back to its caller
_send_xs_notification_keeps_handle(ws_url, websocket, outcome) ==
    LET need == NeedsConnect(websocket)
        ws == IF need THEN Socket(_ensure_client_param(ws_url)) ELSE websocket
    IN  IF outcome = "import_fails" \/ (need /\ outcome = "connect_fails")
        THEN [raised |-> TRUE, ok |-> FALSE, websocket |-> websocket, err |-> TRUE,
              connected |-> FALSE, over |-> NoSocket, close_called |-> FALSE]
        ELSE IF outcome = "ok"
        THEN [raised |-> FALSE, ok |-> TRUE, websocket |-> ws, err |-> FALSE,
              connected |-> need, over |-> ws, close_called |-> FALSE]
        ELSE [raised |-> FALSE, ok |-> FALSE, websocket |-> ws, err |-> TRUE,
              connected |-> need, over |-> ws, close_called |-> FALSE]

\* a sender that connects on every call
_send_xs_notification_reconnects(ws_url, websocket, outcome) ==
    LET ws == Socket(_ensure_client_param(ws_url))
    IN  IF outcome \in {"import_fails", "connect_fails"}
        THEN [raised |-> TRUE, ok |-> FALSE, websocket |-> websocket, err |-> TRUE,
              connected |-> FALSE, over |-> NoSocket, close_called |-> FALSE]
        ELSE IF outcome = "ok"
        THEN [raised |-> FALSE, ok |-> TRUE, websocket |-> ws, err |-> FALSE,
              connected |-> TRUE, over |-> ws, close_called |-> FALSE]
        ELSE [raised |-> FALSE, ok |-> FALSE, websocket |-> NoSocket, err |-> TRUE,
              connected |-> TRUE, over |-> ws, close_called |-> TRUE]

\* _send_xs_notification(ws_url, ..., websocket) under the transport's outcome:
\* raised, or the returned (ok, websocket, error); err tells whether the error
\* text is not None, connected whether websockets.connect was called and
\* succeeded, over which connection send was called on, close_called whether
\* close was called on it
_send_xs_notification(ws_url, websocket, outcome) ==
    LET need == NeedsConnect(websocket)
        ws == IF need THEN Socket(_ensure_client_param(ws_url)) ELSE websocket
    IN  IF outcome = "import_fails" \/ (need /\ outcome = "connect_fails")
        THEN [raised |-> TRUE, ok |-> FALSE, websocket |-> websocket, err |-> TRUE,
              connected |-> FALSE, over |-> NoSocket, close_called |-> FALSE]
        ELSE IF outcome = "ok"
        THEN [raised |-> FALSE, ok |-> TRUE, websocket |-> ws, err |-> FALSE,
              connected |-> need, over |-> ws, close_called |-> FALSE]
        ELSE [raised |-> FALSE, ok |-> FALSE, websocket |-> NoSocket, err |-> TRUE,
              connected |-> need, over |-> ws, close_called |-> TRUE]

\* Python floats: Num(n) is n tenths; the values that are no number of tenths
\* are not-a-number and the two infinities
NaN == [t |-> "nan", v |-> 0]
Inf(sign) == [t |-> "inf", v |-> sign]

\* float(value): raised, or the float.  A float is itself, a bool is 0.0 or
\* 1.0, a str is parsed ("nan", "inf", "-inf" and "0.5" are the numeric texts of
\* the model, any other text raises ValueError), None, a list or a dict raises
\* TypeError.
float(value) ==
    CASE value.t \in {"num", "nan", "inf"} -> [raised |-> FALSE, number |-> value]
      [] value.t = "bool" ->
            [raised |-> FALSE, number |-> IF value.v THEN Num(10) ELSE Num(0)]
      [] value.t = "str" ->
            CASE value.v = "nan" -> [raised |-> FALSE, number |-> NaN]
              [] value.v = "inf" -> [raised |-> FALSE, number |-> Inf(1)]
              [] value.v = "-inf" -> [raised |-> FALSE, number |-> Inf(-1)]
              [] value.v = "0.5" -> [raised |-> FALSE, number |-> Num(5)]
              [] OTHER -> [raised |-> TRUE, number |-> NaN]
      [] OTHER -> [raised |-> TRUE, number |-> NaN]

\* number < bound, number <= bound, number > bound for a float and a number of
\* tenths: every comparison with not-a-number is false
FloatLt(number, bound) ==
    CASE number.t = "num" -> number.v < bound
      [] number.t = "inf" -> number.v < 0
      [] number.t = "nan" -> FALSE
FloatLe(number, bound) ==
    CASE number.t = "num" -> number.v <= bound
      [] number.t = "inf" -> number.v < 0
      [] number.t = "nan" -> FALSE
FloatGt(number, bound) ==
    CASE number.t = "num" -> number.v > bound
      [] number.t = "inf" -> number.v > 0
      [] number.t = "nan" -> FALSE

\* _safe_float(value, default, min_value=..., max_value=..., allow_zero=...): a
\* missing bound is has_min / has_max = FALSE
_safe_float(value, default, has_min, min_value, has_max, max_value, allow_zero) ==
    IF value.t = "null" \/ float(value).raised THEN default
    ELSE IF has_min /\ allow_zero /\ FloatLt(float(value).number, min_value) THEN default
    ELSE IF has_min /\ ~allow_zero /\ FloatLe(float(value).number, min_value) THEN default
    ELSE IF has_max /\ FloatGt(float(value).number, max_value) THEN default
    ELSE float(value).number

\* _safe_poll_interval(value)
_safe_poll_interval(value) == _safe_float(value, Num(10), TRUE, 0, FALSE, 0, FALSE)

\* _safe_notification_timeout(value)
_safe_notification_timeout(value) == _safe_float(value, Num(30), TRUE, 0, FALSE, 0, FALSE)

\* _safe_notification_opacity(value)
_safe_notification_opacity(value) == _safe_float(value, Num(6), TRUE, 0, TRUE, 10, TRUE)

-----------------------------------------------------------------------------
(* Values the other specifications leave alone *)

NoLast == [op |-> "init"]
NoLoop == [pc |-> "none"]
NoEnv == [clock |-> 0]
NoHist == [sent |-> <<>>]
Idle == loop = NoLoop /\ env = NoEnv /\ hist = NoHist
NoFs == [primary |-> NoFile, backup |-> NoFile, tmp |-> NoFile, corrupt |-> NoFile,
         clock |-> 0]

-----------------------------------------------------------------------------
(* FilterSpec: evaluate and reset_learning_state called on one config, as the
   tests of bridge.py and config.py call them *)

\* a list holding the keys of A
KeyList(A) == List(SetToSeq({Str(k) : k \in A}))

SessionIds == {IsoFormat(t) : t \in Times}

\* a normalized config: default_config() with the filter lists and the
\* learning section set
MakeConfig(allow, block, enabled, last_reset, pending, shown) ==
    Put(Put(default_config,
        "filters", Dict([j \in {"allow", "block"} |->
            IF j = "allow" THEN KeyList(allow) ELSE KeyList(block)])),
        "learning", Dict([j \in {"enabled", "last_reset", "pending", "shown_session"} |->
            CASE j = "enabled" -> Bool(enabled)
              [] j = "last_reset" -> last_reset
              [] j = "pending" -> Dict([k \in pending |->
                        Str(IF DisplayName(k) # "" THEN DisplayName(k) ELSE k)])
              [] j = "shown_session" -> Dict([k \in shown |-> IsoFormat(1)])]))

FilterConfigs ==
    { MakeConfig(a, b, e, lr, p, s) :
        a \in SUBSET Keys, b \in SUBSET Keys, e \in BOOLEAN,
        lr \in {Null, IsoFormat(1)}, p \in SUBSET Keys, s \in SUBSET Keys }

FilterInit ==
    /\ Idle
    /\ config \in FilterConfigs
    /\ last = NoLast
    /\ granted = {}
    /\ seen = <<>>
    /\ fs = NoFs

\* _evaluate_notification(app_key, display_name, config)
Evaluate(app_key, display_name, now) ==
    LET r == evaluate(config, app_key, display_name, now)
    IN  /\ config' = r.config
        /\ last' = [op |-> "evaluate", key |-> app_key, name |-> display_name,
                    pre |-> config, granted |-> granted, dec |-> r.decision]
        /\ granted' = IF r.decision.reason = "learning_allow"
                      THEN granted \cup {app_key} ELSE granted
        /\ UNCHANGED <<seen, fs, loopvars>>

\* reset_learning_state(config, session_id)
Reset(session_id) ==
    LET r == reset_learning_state(config, session_id)
    IN  /\ config' = r.config
        /\ last' = [op |-> "reset", session |-> session_id, pre |-> config,
                    granted |-> granted, ret |-> r.ret]
        /\ granted' = IF r.ret THEN {} ELSE granted
        /\ UNCHANGED <<seen, fs, loopvars>>

FilterNext ==
    \/ \E k \in Keys, t \in Times : Evaluate(k, DisplayName(k), t)
    \/ \E s \in SessionIds : Reset(s)

FilterSpec == FilterInit /\ [][FilterNext]_vars

\* views of a config used by the properties
AllowOf(cfg) == filter_allow_list(cfg)
BlockOf(cfg) == filter_block_list(cfg)
EnabledOf(cfg) == Truthy(Get(Get(cfg, "learning"), "enabled"))
PendingOf(cfg) == Get(Get(cfg, "learning"), "pending")
ShownOf(cfg) == Get(Get(cfg, "learning"), "shown_session")
LastResetOf(cfg) == Get(Get(cfg, "learning"), "last_reset")

-----------------------------------------------------------------------------
(* Properties of the filter and of the session reset (FilterSpec) *)

\* C1: a key in the block list is denied with reason blocked, whatever the
\* allow list, learning.enabled, pending and shown_session hold.
C1_BlockWins ==
    (last.op = "evaluate" /\ Str(last.key) \in BlockOf(last.pre))
        => last.dec.allow = FALSE /\ last.dec.reason = "blocked"

\* the key evaluated was in both lists, with learning enabled
C1_Witness ==
    /\ last.op = "evaluate"
    /\ Str(last.key) \in BlockOf(last.pre) \cap AllowOf(last.pre)
    /\ EnabledOf(last.pre)
    /\ last.dec.reason = "blocked"

\* C2: with learning enabled and the key in neither list, an evaluate that
\* finds the key outside shown_session returns (true, learning_allow, true),
\* and every evaluate of a key already granted since the last reset returns
\* (false, learning_suppress, false).
C2_LearningOncePerEpoch ==
    (/\ last.op = "evaluate"
     /\ EnabledOf(last.pre)
     /\ Str(last.key) \notin (AllowOf(last.pre) \cup BlockOf(last.pre)))
        => /\ ~Has(ShownOf(last.pre), last.key)
                => last.dec = FilterDecision(TRUE, "learning_allow", TRUE)
           /\ last.key \in last.granted
                => last.dec = FilterDecision(FALSE, "learning_suppress", FALSE)

\* a second evaluate of a key granted earlier in the same epoch
C2_Witness ==
    /\ last.op = "evaluate"
    /\ last.key \in last.granted
    /\ last.dec.reason = "learning_suppress"

\* the reason the priority order blocked > allowed > learning > not_in_allow >
\* default_allow gives for key k under config cfg
PriorityReason(cfg, k) ==
    IF Str(k) \in BlockOf(cfg) THEN "blocked"
    ELSE IF Str(k) \in AllowOf(cfg) THEN "allowed"
    ELSE IF EnabledOf(cfg)
         THEN (IF Has(ShownOf(cfg), k) THEN "learning_suppress" ELSE "learning_allow")
    ELSE IF AllowOf(cfg) # {} THEN "not_in_allow"
    ELSE "default_allow"

\* C4: evaluate returns the reason of the priority order, and allow is true
\* exactly for allowed, learning_allow and default_allow.
C4_PriorityOrder ==
    last.op = "evaluate"
        => /\ last.dec.reason = PriorityReason(last.pre, last.key)
           /\ last.dec.allow =
                (last.dec.reason \in {"allowed", "learning_allow", "default_allow"})

\* learning disabled, an unlisted key, a non-empty allow list: not_in_allow
C4_Witness ==
    /\ last.op = "evaluate"
    /\ ~EnabledOf(last.pre)
    /\ AllowOf(last.pre) # {}
    /\ last.dec = FilterDecision(FALSE, "not_in_allow", FALSE)

\* C5: a reset with a session id other than last_reset empties shown_session,
\* keeps pending, stores the id and returns true; a reset with the stored id
\* changes nothing and returns false, so the call repeated at once is a no-op.
C5_ResetOncePerSession ==
    last.op = "reset"
        => /\ IF LastResetOf(last.pre) # last.session
              THEN /\ last.ret = TRUE
                   /\ ShownOf(config) = EmptyDict
                   /\ PendingOf(config) = PendingOf(last.pre)
                   /\ LastResetOf(config) = last.session
              ELSE last.ret = FALSE /\ config = last.pre
           /\ LET again == reset_learning_state(config, last.session)
              IN  again.ret = FALSE /\ again.config = config

\* a reset that fired on a config with entries in shown_session and pending
C5_Witness ==
    /\ last.op = "reset"
    /\ last.ret = TRUE
    /\ ShownOf(last.pre) # EmptyDict
    /\ PendingOf(last.pre) # EmptyDict
    /\ ShownOf(config) = EmptyDict

\* the keys of a dict
DictKeys(d) == DOMAIN d.v

\* C31 as stated: after any evaluate or reset_learning_state on a normalized
\* config every key of learning.shown_session is a key of learning.pending.
C31_ShownWithinPending ==
    last.op \in {"evaluate", "reset"}
        => DictKeys(ShownOf(config)) \subseteq DictKeys(PendingOf(config))

\* C31: evaluate and reset_learning_state keep "every key of shown_session is a
\* key of pending" once it holds, a reset that fires establishes it, a learning
\* decision establishes it for the key evaluated, and neither operation
\* removes a key from pending or changes the entry of a key pending holds.
C31_ShownWithinPendingPreserved ==
    last.op \in {"evaluate", "reset"}
        => /\ DictKeys(PendingOf(last.pre)) \subseteq DictKeys(PendingOf(config))
           /\ \A k \in DictKeys(PendingOf(last.pre)) :
                Get(PendingOf(config), k) = Get(PendingOf(last.pre), k)
           /\ DictKeys(ShownOf(last.pre)) \subseteq DictKeys(PendingOf(last.pre))
                => DictKeys(ShownOf(config)) \subseteq DictKeys(PendingOf(config))
           /\ (last.op = "reset" /\ last.ret)
                => DictKeys(ShownOf(config)) \subseteq DictKeys(PendingOf(config))
           /\ (last.op = "evaluate"
                 /\ last.dec.reason \in {"learning_allow", "learning_suppress"})
                => /\ Has(ShownOf(config), last.key)
                   /\ Has(PendingOf(config), last.key)

\* a trial was granted to a key pending did not hold, on a config whose
\* shown_session keys were all in pending: the key is now in both
C31_Witness ==
    /\ last.op = "evaluate"
    /\ last.dec.reason = "learning_allow"
    /\ ~Has(PendingOf(last.pre), last.key)
    /\ ShownOf(last.pre) # EmptyDict
    /\ DictKeys(ShownOf(last.pre)) \subseteq DictKeys(PendingOf(last.pre))
    /\ Has(ShownOf(config), last.key)
    /\ Has(PendingOf(config), last.key)

\* the entry of key k in the dict d, Absent when d has none
EntryOf(d, k) == IF Has(d, k) THEN Get(d, k) ELSE Absent

\* the config cfg apart from learning.pending and learning.shown_session
OutsideLearningEntries(cfg) ==
    [top |-> [k \in DictKeys(cfg) \ {"learning"} |-> Get(cfg, k)],
     learning |-> [j \in DictKeys(Get(cfg, "learning")) \ {"pending", "shown_session"} |->
                      Get(Get(cfg, "learning"), j)]]

\* C37: an evaluate that returns blocked, allowed, not_in_allow or
\* default_allow leaves the config as it was; an evaluate of key k changes at
\* most the entries of k in learning.pending and learning.shown_session, and
\* only by adding them; the updated flag is true exactly when one of the two
\* was added, which is exactly when the config changed.
C37_EvaluateFrame ==
    last.op = "evaluate"
        => LET k == last.key
               pending_written ==
                    EntryOf(PendingOf(config), k) # EntryOf(PendingOf(last.pre), k)
               shown_written ==
                    EntryOf(ShownOf(config), k) # EntryOf(ShownOf(last.pre), k)
           IN  /\ last.dec.reason \in {"blocked", "allowed", "not_in_allow", "default_allow"}
                    => config = last.pre /\ ~last.dec.updated
               /\ OutsideLearningEntries(config) = OutsideLearningEntries(last.pre)
               /\ \A j \in Keys \ {k} :
                    /\ EntryOf(PendingOf(config), j) = EntryOf(PendingOf(last.pre), j)
                    /\ EntryOf(ShownOf(config), j) = EntryOf(ShownOf(last.pre), j)
               /\ pending_written => ~Has(PendingOf(last.pre), k)
               /\ shown_written => ~Has(ShownOf(last.pre), k)
               /\ last.dec.updated <=> (pending_written \/ shown_written)
               /\ last.dec.updated <=> config # last.pre

\* a key shown_session held and pending did not was suppressed: only its
\* pending entry was written, and the flag is true
C37_Witness ==
    /\ last.op = "evaluate"
    /\ last.dec = FilterDecision(FALSE, "learning_suppress", TRUE)
    /\ ~Has(PendingOf(last.pre), last.key)
    /\ Has(PendingOf(config), last.key)
    /\ ShownOf(config) = ShownOf(last.pre)
    /\ AllowOf(config) # {}

-----------------------------------------------------------------------------
(* PruneSpec: _prune_seen called on a cache, as test_prune_seen_removes_old_and_trims
   calls it *)

Clock == 0..MaxClock

\* caches of up to MaxSeen entries, keyed in insertion order, with any timestamps
SeenSamples ==
    UNION { { [i \in 1..n |-> [key |-> <<DiscordKey, i>>, ts |-> f[i]]] :
                f \in [1..n -> Clock] } : n \in 0..MaxSeen }

PruneInit ==
    /\ Idle
    /\ seen \in SeenSamples
    /\ last = NoLast
    /\ config = default_config
    /\ granted = {}
    /\ fs = NoFs

\* _prune_seen(seen, max_age_seconds=max_age, max_size=max_size)
Prune(now, max_age, max_size) ==
    /\ seen' = _prune_seen(seen, now, max_age, max_size)
    /\ last' = [op |-> "prune", pre |-> seen, now |-> now,
                max_age |-> max_age, max_size |-> max_size]
    /\ UNCHANGED <<config, granted, fs, loopvars>>

PruneNext ==
    \E now \in Clock, max_age \in Clock, max_size \in 0..MaxSeen :
        Prune(now, max_age, max_size)

PruneSpec == PruneInit /\ [][PruneNext]_vars

SeqSet(s) == {s[i] : i \in 1..Len(s)}
MinOf(a, b) == IF a < b THEN a ELSE b

\* C7: _prune_seen removes every entry older than max_age; of the rest it
\* keeps min(count, max_size), none of them older than max_age, and no entry
\* it evicted for size is newer than one it kept.
C7_PruneSeen ==
    last.op = "prune"
        => LET before == SeqSet(last.pre)
               after == SeqSet(seen)
               fresh == {e \in before : last.now - e.ts <= last.max_age}
           IN  /\ after \subseteq fresh
               /\ Len(seen) = Cardinality(after)
               /\ Cardinality(after) = MinOf(Cardinality(fresh), last.max_size)
               /\ \A e \in fresh \ after : \A f \in after : e.ts <= f.ts

\* a prune that dropped one entry for age, evicted one for size and kept one
C7_Witness ==
    /\ last.op = "prune"
    /\ \E e \in SeqSet(last.pre) : last.now - e.ts > last.max_age
    /\ \E e \in SeqSet(last.pre) \ SeqSet(seen) : last.now - e.ts <= last.max_age
    /\ seen # <<>>

-----------------------------------------------------------------------------
(* StoreSpec: load_config and save_config on a config directory, as the tests
   of config.py call them *)

App1 == "app1"

\* {"filters": {"allow": ["app1"]}}: a document that lacks most keys
DocPartial ==
    Dict([k \in {"filters"} |-> Dict([j \in {"allow"} |-> List(<<Str(App1)>>)])])

\* a document with containers of the wrong type, a legacy shown_today and an
\* unknown key (test_normalize_config_migrates_and_sanitizes)
DocSloppy ==
    Dict([k \in {"filters", "learning", "poll_interval_seconds", "extra"} |->
        CASE k = "filters" ->
                Dict([j \in {"allow", "block"} |-> Str("not-list")])
          [] k = "learning" ->
                Dict([j \in {"pending", "shown_session", "shown_today"} |->
                    IF j = "shown_today"
                    THEN Dict([a \in {App1} |-> Str("2024-01-01")])
                    ELSE Str("nope")])
          [] k = "poll_interval_seconds" -> Num(20)
          [] k = "extra" -> Num(1)])

\* a document whose filters value is not an object
DocBadSection == Dict([k \in {"filters"} |-> Str("x")])

\* {"xs_overlay": {"ws_url": ..., "theme": "dark"}}: a section that lacks keys
\* of the defaults and has a key the defaults do not know
DocExtended ==
    Dict([k \in {"xs_overlay"} |->
        Dict([j \in {"ws_url", "theme"} |->
            IF j = "ws_url" THEN Str(<<UrlBase>>) ELSE Str("dark")])])

\* configs held in memory and written by save_config
SavedConfigs ==
    { default_config,
      MakeConfig({App1}, {}, TRUE, IsoFormat(1), {App1}, {App1}) }

\* the in-memory config a hot reload passes as fallback
FallbackConfig == MakeConfig({}, {DiscordKey}, FALSE, Null, {App1}, {})

\* texts a config file or its backup may hold
Texts ==
    {Garbage, json_dumps(List(<<Num(1), Num(2), Num(3)>>))}
        \cup {json_dumps(d) : d \in {EmptyDict, DocPartial, DocSloppy, DocBadSection,
                                      DocExtended}}
        \cup {json_dumps(c) : c \in SavedConfigs}

Files == {NoFile} \cup {FileOf(t, 0) : t \in Texts}

\* texts the backup may hold when the run starts
BackupTexts ==
    {Garbage, json_dumps(DocPartial), json_dumps(DocBadSection), json_dumps(default_config)}

BackupFiles == {NoFile} \cup {FileOf(t, 0) : t \in BackupTexts}

StoreInit ==
    /\ Idle
    /\ fs \in { [primary |-> p, backup |-> b, tmp |-> NoFile, corrupt |-> NoFile,
                 clock |-> 0] : p \in Files, b \in BackupFiles }
    /\ config = default_config
    /\ last = NoLast
    /\ granted = {}
    /\ seen = <<>>

\* config = load_config(path, fallback); a fault is drawn only for a call that
\* writes
Load(fallback, F) ==
    LET r == load_config(fs, fallback, F)
    IN  /\ fs.clock < MaxWrites
        /\ F = {} \/ (_read_json(fs.backup).ok /\ ~_read_json(fs.primary).ok)
        /\ fs' = r.fs
        /\ config' = IF r.raised THEN config ELSE r.value
        /\ last' = [op |-> "load", pre |-> fs, fallback |-> fallback, faults |-> F,
                    raised |-> r.raised, ret |-> r.value, log |-> r.log]
        /\ UNCHANGED <<granted, seen, loopvars>>

\* the event is among the events a call logged
Logged(log, event) == \E i \in 1..Len(log) : log[i] = event

\* save_config(path, data); a fault of the backup copy is drawn only when there
\* is a primary to copy; repeat tells that the call before, made at the same
\* reading of time.time(), was a save_config that logged config_save_failed;
\* a process that starts after a stop loads before it saves
Save(data, F) ==
    LET r == save_config(fs, data, F)
    IN  /\ fs.clock < MaxWrites
        /\ last.op # "stop"
        /\ fs.primary.exists \/ F \cap {"copy_open", "copy_partial"} = {}
        /\ fs' = r.fs
        /\ last' = [op |-> "save", pre |-> fs, data |-> data, faults |-> F,
                    log |-> r.log, raised |-> r.raised, data_after |-> r.data,
                    repeat |-> last.op = "save" /\ Logged(last.log, "config_save_failed")]
        /\ UNCHANGED <<config, granted, seen, loopvars>>

\* the process stops inside save_config(path, data); the backup copy is a
\* stopping place only when there is a primary to copy; the process that runs
\* next begins with load_config, so no save and no stop follows a stop directly
Stopped(data, point) ==
    /\ fs.clock < MaxWrites
    /\ last.op # "stop"
    /\ point \in CopyPoints => fs.primary.exists
    /\ fs' = save_config_stopped(fs, data, point)
    /\ last' = [op |-> "stop", pre |-> fs, data |-> data, point |-> point]
    /\ UNCHANGED <<config, granted, seen, loopvars>>

FaultSets == {{}} \cup {{f} : f \in Faults}

StoreNext ==
    \/ \E fb \in {NoFallback, Fallback(FallbackConfig)}, F \in FaultSets : Load(fb, F)
    \/ \E c \in SavedConfigs, F \in FaultSets : Save(c, F)
    \/ \E c \in SavedConfigs, point \in StopPoints : Stopped(c, point)

StoreSpec == StoreInit /\ [][StoreNext]_vars

\* the primary exists but does not parse to a JSON object
CorruptPrimary(dir) == dir.primary.exists /\ ~_read_json(dir.primary).ok
\* the backup parses to a JSON object
UsableBackup(dir) == dir.backup.exists /\ _read_json(dir.backup).ok

\* C8 as stated: on a corrupt primary with a backup that parses to an object,
\* load_config returns the backup's content, leaves the primary parsing
\* identically to the backup, and does not modify the backup.
C8_RestoreIdenticalToBackup ==
    (last.op = "load" /\ CorruptPrimary(last.pre) /\ UsableBackup(last.pre))
        => /\ ~last.raised
           /\ last.ret = _read_json(last.pre.backup).data
           /\ _read_json(fs.primary) = _read_json(fs.backup)
           /\ fs.backup = last.pre.backup

\* C8 (amended): on a corrupt primary with a backup that parses to an object
\* whose filters and learning values are objects, load_config returns the
\* backup's content normalized against the defaults and does not modify the
\* backup; when the restore write succeeds (config_restore) the primary parses
\* to exactly the returned config, and when it fails (config_restore_failed)
\* the primary is left as it was.
C8_RestoreNormalizedBackup ==
    (last.op = "load" /\ CorruptPrimary(last.pre) /\ UsableBackup(last.pre)
        /\ ~normalize_config(_read_json(last.pre.backup).data).raised)
        => /\ ~last.raised
           /\ last.ret = normalize_config(_read_json(last.pre.backup).data).value
           /\ fs.backup = last.pre.backup
           /\ last.log \in {<<"config_restore">>, <<"config_restore_failed">>}
           /\ last.log = <<"config_restore">>
                => _read_json(fs.primary) = [ok |-> TRUE, data |-> last.ret]
           /\ last.log = <<"config_restore_failed">>
                => fs.primary = last.pre.primary

\* a restore from a backup that lacked keys: the primary now holds the
\* normalized document, which differs from the backup
C8_Witness ==
    /\ last.op = "load"
    /\ CorruptPrimary(last.pre)
    /\ _read_json(last.pre.backup) = [ok |-> TRUE, data |-> DocPartial]
    /\ last.log = <<"config_restore">>
    /\ _read_json(fs.primary).ok
    /\ _read_json(fs.primary).data # DocPartial
    /\ Get(Get(last.ret, "filters"), "allow") = List(<<Str(App1)>>)

\* C9: on a corrupt primary whose backup is missing or corrupt, load_config
\* returns default_config() without a fallback and the fallback itself with one.
C9_FallbackOrDefaults ==
    (last.op = "load" /\ CorruptPrimary(last.pre) /\ ~UsableBackup(last.pre))
        => /\ ~last.raised
           /\ last.ret = IF last.fallback.given THEN last.fallback.value
                         ELSE default_config

\* a load with a fallback that is not the defaults, on a corrupt primary and
\* a corrupt backup
C9_Witness ==
    /\ last.op = "load"
    /\ CorruptPrimary(last.pre)
    /\ last.pre.backup.exists
    /\ ~UsableBackup(last.pre)
    /\ last.fallback.given
    /\ last.ret = last.fallback.value
    /\ last.ret # default_config

\* C10 as stated: after load_config found the primary corrupt and no usable
\* backup, the .corrupt sibling exists and the primary path no longer holds
\* the corrupt content.
C10_CorruptRenamedAside ==
    (last.op = "load" /\ CorruptPrimary(last.pre) /\ ~UsableBackup(last.pre))
        => /\ fs.corrupt.exists
           /\ ~CorruptPrimary(fs)

\* the steps of _write_text_atomic whose failure ends the call
FatalFaults == {"mkdir", "tmp_write", "replace"}
\* the steps of the backup copy
CopyFaults == {"copy_open", "copy_partial"}

\* C11: save_config writes the temporary file, then copies the primary to the
\* backup, then replaces the primary: after a save of B over a primary holding
\* A in which no step failed the primary holds B, the backup holds A and the
\* temporary file is gone; a save whose replace failed has already written B
\* to the temporary file and A to the backup; a save whose temporary write
\* failed has touched neither the backup nor the primary.
C11_SaveOrder ==
    (last.op = "save" /\ last.pre.primary.exists)
        => /\ last.faults = {}
                => /\ fs.primary.exists
                   /\ fs.primary.text = json_dumps(last.data)
                   /\ fs.backup.exists
                   /\ fs.backup.text = last.pre.primary.text
                   /\ ~fs.tmp.exists
           /\ last.faults = {"replace"}
                => /\ fs.tmp.exists
                   /\ fs.tmp.text = json_dumps(last.data)
                   /\ fs.backup.exists
                   /\ fs.backup.text = last.pre.primary.text
                   /\ fs.primary = last.pre.primary
           /\ last.faults = {"tmp_write"}
                => /\ fs.backup = last.pre.backup
                   /\ fs.primary = last.pre.primary

\* the second of two successive saves: B written over the A an earlier write
\* of the run left, A now in the backup
C11_Witness ==
    /\ last.op = "save"
    /\ last.faults = {}
    /\ last.pre.primary.mtime >= 1
    /\ \E c \in SavedConfigs : last.pre.primary.text = json_dumps(c)
    /\ last.pre.primary.text # json_dumps(last.data)
    /\ fs.primary.text = json_dumps(last.data)
    /\ fs.backup.text = last.pre.primary.text

\* C12: save_config never raises, whichever step fails; a save that failed
\* (mkdir, temporary write or replace) logs config_save_failed, leaves the dict
\* passed in as it was and leaves the primary file as it was.
C12_SaveNeverRaises ==
    last.op = "save"
        => /\ ~last.raised
           /\ last.data_after = last.data
           /\ (last.faults \cap FatalFaults # {})
                <=> Logged(last.log, "config_save_failed")
           /\ Logged(last.log, "config_save_failed")
                => fs.primary = last.pre.primary

\* a save whose replace failed over a primary holding other content
C12_Witness ==
    /\ last.op = "save"
    /\ last.faults = {"replace"}
    /\ ~last.raised
    /\ last.pre.primary.exists
    /\ last.pre.primary.text # json_dumps(last.data)
    /\ fs.primary = last.pre.primary
    /\ Logged(last.log, "config_save_failed")

\* C13 as stated: of two failing save_config calls within one throttle interval
\* only the first logs config_save_failed.
C13_SaveFailureLoggedOncePerInterval ==
    (last.op = "save" /\ last.repeat /\ last.faults \cap FatalFaults # {})
        => ~Logged(last.log, "config_save_failed")

\* C14: when the copy of the primary to the backup fails during a save, the
\* save logs config_backup_failed, does not raise, does not log
\* config_save_failed, and the primary holds the new content.
C14_BackupFailureNotFatal ==
    (last.op = "save" /\ last.pre.primary.exists /\ last.faults \cap CopyFaults # {})
        => /\ ~last.raised
           /\ Logged(last.log, "config_backup_failed")
           /\ ~Logged(last.log, "config_save_failed")
           /\ fs.primary.exists
           /\ fs.primary.text = json_dumps(last.data)

\* a save over a primary holding other content whose backup copy failed
\* part-way
C14_Witness ==
    /\ last.op = "save"
    /\ last.faults = {"copy_partial"}
    /\ last.pre.primary.exists
    /\ last.pre.primary.text # json_dumps(last.data)
    /\ fs.primary.text = json_dumps(last.data)
    /\ fs.backup.text = Garbage
    /\ last.log = <<"config_backup_failed">>

\* the last call loaded a primary that parses to an object, without raising
LoadedObject == last.op = "load" /\ _read_json(last.pre.primary).ok /\ ~last.raised
\* the document that call read
LoadedDoc == _read_json(last.pre.primary).data

\* the keys of the section cfg[k] when it is a dict
SectionKeys(cfg, k) == IF Has(cfg, k) /\ IsDict(Get(cfg, k)) THEN DOMAIN Get(cfg, k).v ELSE {}

\* keys the document lacks hold the default in the result, at both levels
MissingFilled(doc, ret) ==
    \A k \in DOMAIN default_config.v :
        /\ ~Has(doc, k) => Has(ret, k) /\ Get(ret, k) = Get(default_config, k)
        /\ (Has(doc, k) /\ IsDict(Get(doc, k)))
            => \A j \in SectionKeys(default_config, k) \ SectionKeys(doc, k) :
                    /\ IsDict(Get(ret, k))
                    /\ Has(Get(ret, k), j)
                    /\ Get(Get(ret, k), j) = Get(Get(default_config, k), j)

\* keys of the document unknown to the defaults hold the loaded value in the
\* result, at both levels, but for the nested keys in dropped
UnknownKept(doc, ret, dropped) ==
    /\ \A k \in (DOMAIN doc.v) \ (DOMAIN default_config.v) :
            Has(ret, k) /\ Get(ret, k) = Get(doc, k)
    /\ \A k \in DOMAIN default_config.v :
            \A j \in SectionKeys(doc, k) \ SectionKeys(default_config, k) :
                <<k, j>> \notin dropped
                    => /\ IsDict(Get(ret, k))
                       /\ Has(Get(ret, k), j)
                       /\ Get(Get(ret, k), j) = Get(Get(doc, k), j)

\* doc[k][j] is present and is not of the type wanted ("list" or "dict")
WrongType(doc, k, j, wanted) ==
    /\ j \in SectionKeys(doc, k)
    /\ Get(Get(doc, k), j).t # wanted

\* C40: when the process stops at any point of a save_config of B over a
\* primary that holds a config A that loads, the primary afterwards holds the
\* whole of A or the whole of B, and a load_config of the directory writes
\* nothing, logs nothing and returns normalize_config of A or of B
C40_StoppedSaveLeavesWholePrimary ==
    (/\ last.op = "stop"
     /\ _read_json(last.pre.primary).ok
     /\ ~normalize_config(_read_json(last.pre.primary).data).raised)
        => LET A == _read_json(last.pre.primary).data
               B == last.data
               now == _read_json(fs.primary)
               loaded == load_config(fs, NoFallback, {})
           IN  /\ fs.primary.exists
               /\ fs.primary.text \in {last.pre.primary.text, json_dumps(B)}
               /\ now.ok
               /\ now.data \in {A, B}
               /\ now.data = IF last.point = "replaced" THEN B ELSE A
               /\ ~loaded.raised
               /\ loaded.value = normalize_config(now.data).value
               /\ loaded.fs = fs
               /\ loaded.log = <<>>

\* the process stopped while the backup was being copied: the backup is a part
\* of a text, the temporary file holds B, and the primary still holds A, which
\* load_config returns and which is neither B nor the defaults
C40_Witness ==
    /\ last.op = "stop"
    /\ last.point = "copy_partial"
    /\ _read_json(last.pre.primary).ok
    /\ _read_json(last.pre.primary).data = DocExtended
    /\ last.data # default_config
    /\ ~_read_json(fs.backup).ok
    /\ _read_json(fs.tmp).data = last.data
    /\ load_config(fs, NoFallback, {}).value = normalize_config(DocExtended).value
    /\ load_config(fs, NoFallback, {}).value \notin {default_config, last.data}

\* C15 as stated: normalize_config fills the keys the document lacks from the
\* defaults at every level, keeps every key unknown to the defaults with its
\* loaded value, and replaces a filters.allow / filters.block that is not a
\* list and a learning.pending / learning.shown_session that is not a mapping
\* by an empty container.
C15_NormalizeFillsKeepsCoerces ==
    LoadedObject
        => /\ MissingFilled(LoadedDoc, last.ret)
           /\ UnknownKept(LoadedDoc, last.ret, {})
           /\ \A j \in {"allow", "block"} :
                WrongType(LoadedDoc, "filters", j, "list")
                    => Get(Get(last.ret, "filters"), j) = EmptyList
           /\ \A j \in {"pending", "shown_session"} :
                WrongType(LoadedDoc, "learning", j, "dict")
                    => Get(Get(last.ret, "learning"), j) = EmptyDict

\* C15 (amended): for a document whose filters and learning values are objects,
\* normalize_config fills the keys the document lacks from the defaults at
\* every level, keeps every key unknown to the defaults with its loaded value
\* except the legacy key learning.shown_today, which it always removes, and
\* replaces a filters.allow / filters.block that is not a list and a
\* learning.pending that is not a mapping by an empty container; a
\* learning.shown_session that is not a mapping is replaced by the value of
\* learning.shown_today when that is a mapping and by an empty mapping otherwise.
C15_NormalizeMigratesLegacy ==
    LoadedObject
        => /\ MissingFilled(LoadedDoc, last.ret)
           /\ UnknownKept(LoadedDoc, last.ret, {<<"learning", "shown_today">>})
           /\ ~Has(Get(last.ret, "learning"), "shown_today")
           /\ \A j \in {"allow", "block"} :
                WrongType(LoadedDoc, "filters", j, "list")
                    => Get(Get(last.ret, "filters"), j) = EmptyList
           /\ WrongType(LoadedDoc, "learning", "pending", "dict")
                => Get(Get(last.ret, "learning"), "pending") = EmptyDict
           /\ WrongType(LoadedDoc, "learning", "shown_session", "dict")
                => Get(Get(last.ret, "learning"), "shown_session") =
                      IF /\ "shown_today" \in SectionKeys(LoadedDoc, "learning")
                         /\ IsDict(Get(Get(LoadedDoc, "learning"), "shown_today"))
                      THEN Get(Get(LoadedDoc, "learning"), "shown_today")
                      ELSE EmptyDict

\* the load of the document with wrong container types, a legacy shown_today
\* and an unknown key: lists emptied, shown_today migrated, extra kept
C15_Witness ==
    /\ LoadedObject
    /\ LoadedDoc = DocSloppy
    /\ Get(Get(last.ret, "filters"), "allow") = EmptyList
    /\ Get(Get(last.ret, "learning"), "pending") = EmptyDict
    /\ Get(Get(last.ret, "learning"), "shown_session") =
            Get(Get(DocSloppy, "learning"), "shown_today")
    /\ Get(last.ret, "extra") = Num(1)
    /\ Get(last.ret, "xs_overlay") = Get(default_config, "xs_overlay")

\* C16 as stated: for every document that parses to an object, load_config
\* returns without raising and the result has filters and learning as mappings
\* with allow / block lists and pending / shown_session mappings.
C16_MalformedNeverCrashes ==
    (last.op = "load" /\ _read_json(last.pre.primary).ok)
        => /\ ~last.raised
           /\ IsDict(Get(last.ret, "filters"))
           /\ IsDict(Get(last.ret, "learning"))
           /\ IsList(Get(Get(last.ret, "filters"), "allow"))
           /\ IsList(Get(Get(last.ret, "filters"), "block"))
           /\ IsDict(Get(Get(last.ret, "learning"), "pending"))
           /\ IsDict(Get(Get(last.ret, "learning"), "shown_session"))

\* C17: normalize_config(json.loads(json.dumps(default_config()))) equals
\* default_config(), and loading a primary that holds the serialization of a
\* normalized config returns a config equal to it.
C17_ConfigRoundTrip ==
    /\ normalize_config(json_loads(json_dumps(default_config)))
            = [raised |-> FALSE, value |-> default_config]
    /\ \A c \in SavedConfigs :
            (last.op = "load" /\ last.pre.primary.exists
                /\ last.pre.primary.text = json_dumps(c))
                => ~last.raised /\ last.ret = c

\* a load of the file a save of this run wrote, holding a config that is not
\* the defaults
C17_Witness ==
    /\ last.op = "load"
    /\ last.pre.primary.mtime >= 1
    /\ last.pre.primary.text # json_dumps(default_config)
    /\ \E c \in SavedConfigs : last.pre.primary.text = json_dumps(c) /\ last.ret = c

-----------------------------------------------------------------------------
(* SendSpec: the connection slot of run_bridge threaded through
   _send_xs_notification, with the transport and the peer as environment *)

\* time.time(), in tenths, when the clock reads env.clock: the epoch lies
\* Epoch tenths before the start of the run, far more than send_error_interval
Epoch == 1000000000
time_time == Epoch + env.clock

\* send_error_interval = 30.0, in tenths
send_error_interval == 300

\* a throttle that lets every failure through
SendErrorLogged_always(now, last_send_error_at) == TRUE

\* now - last_send_error_at >= send_error_interval
SendErrorLogged(now, last_send_error_at) == now - last_send_error_at >= send_error_interval

\* the endpoints a config names
Urls == {DEFAULT_WS_URL, UrlPlain, UrlQuery}

\* the slot and its endpoint (run_bridge's websocket, ws_url_value) and the
\* time of the last logged send failure (last_send_error_at = 0.0)
Slot(ws_url, websocket) ==
    [pc |-> "send", ws_url_value |-> ws_url, websocket |-> websocket,
     last_send_error_at |-> 0]

\* the time between two calls: a poll interval of one second, or 29 seconds
SleepTimes == {10, 290}

\* the run of consecutive successful sends so far: its length, the connections
\* it used, how often the peer closed the held connection during it; dropped
\* tells that the call before returned a failed send
NoRun == [calls |-> 0, streak |-> 0, streak_conns |-> 0, streak_closes |-> 0,
          dropped |-> FALSE]

SendInit ==
    /\ config = default_config
    /\ last = NoLast
    /\ granted = {}
    /\ seen = <<>>
    /\ fs = NoFs
    /\ env = [clock |-> 0, sleeps |-> 0, send_failed_at |-> <<>>,
              open |-> 0, close_raised |-> 0]
    /\ loop \in {Slot(u, NoSocket) : u \in Urls}
    /\ hist = NoRun

\* the run after a call that returned snd
RunAfter(snd) ==
    IF ~snd.raised /\ snd.ok
    THEN [hist EXCEPT
            !.calls = @ + 1,
            !.streak = @ + 1,
            !.streak_conns = IF hist.streak = 0 THEN 1
                             ELSE @ + (IF snd.connected THEN 1 ELSE 0),
            !.dropped = FALSE]
    ELSE [NoRun EXCEPT !.calls = hist.calls + 1, !.dropped = ~snd.raised]

\* run_bridge lines 434-459 with snd what the call did: the slot takes the
\* returned handle, or keeps its value when the call raised
Sent(outcome, snd) ==
    /\ loop' = [loop EXCEPT
            !.websocket = IF snd.raised THEN @ ELSE snd.websocket,
            !.last_send_error_at =
                IF ~snd.ok /\ SendErrorLogged(time_time, loop.last_send_error_at)
                THEN time_time ELSE @]
    /\ hist' = RunAfter(snd)
    /\ env' = [env EXCEPT
            !.send_failed_at =
                IF ~snd.ok /\ SendErrorLogged(time_time, loop.last_send_error_at)
                THEN Append(@, time_time) ELSE @,
            !.open = @ + (IF snd.connected THEN 1 ELSE 0)
                       - (IF snd.close_called /\ outcome = "send_fails" THEN 1 ELSE 0),
            !.close_raised = IF snd.close_called /\ outcome = "send_close_fails"
                             THEN @ + 1 ELSE @]
    /\ last' = [op |-> "send", outcome |-> outcome, url |-> loop.ws_url_value,
                before |-> loop.websocket, after_drop |-> hist.dropped,
                raised |-> snd.raised, ok |-> snd.ok, err |-> snd.err,
                websocket |-> snd.websocket, connected |-> snd.connected,
                over |-> snd.over, close_called |-> snd.close_called,
                now |-> time_time, failed_before |-> Len(env.send_failed_at) > 0,
                after_failure |-> last.op = "send" /\ ~last.ok,
                log |-> IF snd.ok THEN <<"notification_sent">>
                        ELSE IF SendErrorLogged(time_time, loop.last_send_error_at)
                        THEN <<"notification_send_failed">>
                        ELSE <<>>]

\* ok, websocket, send_error = await _send_xs_notification(ws_url_value, ...)
SendCall(outcome) ==
    /\ loop.pc = "send"
    /\ hist.calls < MaxSends
    /\ outcome = "connect_fails" => NeedsConnect(loop.websocket)
    /\ Sent(outcome, _send_xs_notification(loop.ws_url_value, loop.websocket, outcome))
    /\ UNCHANGED <<config, granted, seen, fs>>

\* time passes between two calls: the loop sleeps, or the send took its time
Elapses(dt) ==
    /\ loop.pc = "send"
    /\ env.sleeps < MaxSleeps
    /\ env' = [env EXCEPT !.clock = @ + dt, !.sleeps = @ + 1]
    /\ UNCHANGED <<config, last, granted, seen, fs, loop, hist>>

\* the peer closes the connection the slot holds: its closed attribute turns true
PeerCloses ==
    /\ loop.pc = "send"
    /\ loop.websocket.conn
    /\ ~loop.websocket.closed
    /\ loop' = [loop EXCEPT !.websocket.closed = TRUE]
    /\ hist' = [hist EXCEPT !.streak_closes = IF hist.streak > 0 THEN @ + 1 ELSE @]
    /\ last' = [op |-> "peer_close"]
    /\ env' = [env EXCEPT !.open = @ - 1]
    /\ UNCHANGED <<config, granted, seen, fs>>

\* What the transport does when the loop closes the held connection:
\* websocket.close() returns, or raises and leaves the connection open
CloseOutcomes == {"ok", "raises"}

\* a change of endpoint that forgets the held connection without closing it
DropConnection_unclosed(websocket, outcome) ==
    [websocket |-> NoSocket, close_called |-> FALSE, closed |-> FALSE, raised |-> FALSE]

\* run_bridge lines 391-396: if websocket is not None, close it, ignoring an
\* exception, and set it to None; closed tells that an open connection was
\* closed by the call, raised that close raised
DropConnection(websocket, outcome) ==
    [websocket |-> NoSocket,
     close_called |-> websocket.conn,
     closed |-> websocket.conn /\ ~websocket.closed /\ outcome = "ok",
     raised |-> websocket.conn /\ outcome = "raises"]

\* run_bridge lines 389-396: a reload names another endpoint
Retargets(ws_url, outcome) ==
    /\ loop.pc = "send"
    /\ ws_url # loop.ws_url_value
    /\ outcome = "raises" => loop.websocket.conn
    /\ loop' = [loop EXCEPT !.ws_url_value = ws_url,
                            !.websocket = DropConnection(@, outcome).websocket]
    /\ hist' = [NoRun EXCEPT !.calls = hist.calls]
    /\ last' = [op |-> "retarget", before |-> loop.websocket,
                close_called |-> DropConnection(loop.websocket, outcome).close_called]
    /\ env' = [env EXCEPT
            !.open = IF DropConnection(loop.websocket, outcome).closed THEN @ - 1 ELSE @,
            !.close_raised = IF DropConnection(loop.websocket, outcome).raised
                             THEN @ + 1 ELSE @]
    /\ UNCHANGED <<config, granted, seen, fs>>

SendNext ==
    \/ \E outcome \in SendOutcomes : SendCall(outcome)
    \/ PeerCloses
    \/ \E u \in Urls, outcome \in CloseOutcomes : Retargets(u, outcome)
    \/ \E dt \in SleepTimes : Elapses(dt)

SendSpec == SendInit /\ [][SendNext]_vars

\* the call was handed a connection, its own or a new one, and send raised
SendFailed == last.op = "send" /\ ~last.raised /\ ~last.ok

\* C18: when send fails on a connection, _send_xs_notification calls close on
\* that connection (whether or not close itself raises) and returns
\* (False, None, error text): the caller's slot becomes None, and the next call
\* finds no connection and establishes a new one.
C18_SendFailureDropsConnection ==
    /\ SendFailed
        => /\ last.close_called
           /\ last.over.conn
           /\ last.websocket = NoSocket
           /\ last.err
           /\ loop.websocket = NoSocket
    /\ (last.op = "send" /\ last.after_drop)
        => /\ last.before = NoSocket
           /\ ~last.raised
                => /\ last.connected
                   /\ last.over = Socket(_ensure_client_param(last.url))

\* a send failed and the call after it connected anew and sent
C18_Witness ==
    /\ last.op = "send"
    /\ last.after_drop
    /\ last.ok
    /\ last.connected
    /\ loop.websocket = Socket(_ensure_client_param(last.url))

\* a call that got as far as the connection check reuses an open connection
\* and connects, to the normalized endpoint, when handed None or a closed one
ReusesOpenConnection ==
    (last.op = "send" /\ ~last.raised)
        => /\ last.connected <=> NeedsConnect(last.before)
           /\ ~last.connected => last.over = last.before
           /\ last.connected => last.over = Socket(_ensure_client_param(last.url))

\* C19 as stated: the sender reuses an open connection and connects only when
\* handed None or a closed one; over a run of consecutive successful sends with
\* an unchanged endpoint exactly one connection is used.
C19_OneConnectionPerRun ==
    /\ ReusesOpenConnection
    /\ hist.streak >= 1 => hist.streak_conns = 1

\* C19 (amended): the sender reuses an open connection and connects only when
\* handed None or a closed one; over a run of consecutive successful sends with
\* an unchanged endpoint during which the peer does not close the held
\* connection, exactly one connection is used.
C19_OneConnectionWhileOpen ==
    /\ ReusesOpenConnection
    /\ (hist.streak >= 1 /\ hist.streak_closes = 0) => hist.streak_conns = 1

\* the second successful send of a run went over the connection the first
\* established
C19_Witness ==
    /\ last.op = "send"
    /\ last.ok
    /\ hist.streak >= 2
    /\ hist.streak_closes = 0
    /\ ~last.connected
    /\ last.over = last.before
    /\ hist.streak_conns = 1

\* the times at which notification_send_failed was logged
SendFailedAt == env.send_failed_at

\* C24: a failed send (a returned error or an exception of the sender) is
\* logged as notification_send_failed only when at least send_error_interval
\* (30 seconds) passed since the last such log event, and is logged then: any
\* two of these events are at least 30 seconds apart; a failure, logged or not,
\* does not leave the for loop, the next record's send is attempted.
C24_SendFailureLogThrottled ==
    /\ \A i, j \in 1..Len(SendFailedAt) :
            i < j => SendFailedAt[j] - SendFailedAt[i] >= send_error_interval
    /\ (last.op = "send" /\ ~last.ok)
        => /\ loop.pc = "send"
           /\ last.log \in {<<>>, <<"notification_send_failed">>}
           /\ last.log = <<"notification_send_failed">>
                => SendFailedAt[Len(SendFailedAt)] = last.now
           /\ ~last.failed_before => last.log = <<"notification_send_failed">>
           /\ (last.failed_before /\ last.log = <<>>)
                => last.now - SendFailedAt[Len(SendFailedAt)] < send_error_interval
           /\ (last.log # <<>> /\ Len(SendFailedAt) > 1)
                => last.now - SendFailedAt[Len(SendFailedAt) - 1] >= send_error_interval

\* three sends failed: the first was logged, the second, 29 seconds later, was
\* not, and the third, 30 seconds after the first, was logged again
C24_Witness ==
    /\ last.op = "send"
    /\ ~last.ok
    /\ last.after_failure
    /\ hist.calls = 3
    /\ env.clock = 300
    /\ SendFailedAt = <<Epoch, Epoch + 300>>

\* the connections the loop established that are open: env.open of them, of
\* which the loop holds HeldOpen
HeldOpen == IF loop.websocket.conn /\ ~loop.websocket.closed THEN 1 ELSE 0

\* the loop connects only when it holds no handle or a closed one, and calls
\* close on every handle it drops
ConnectsWhenNeededClosesWhenDropping ==
    /\ (last.op = "send" /\ last.connected) => NeedsConnect(last.before)
    /\ (last.op = "send" /\ ~last.raised /\ ~last.ok)
        => last.close_called /\ loop.websocket = NoSocket
    /\ (last.op = "send" /\ last.before.conn /\ ~last.before.closed
            /\ (last.raised \/ last.ok))
        => loop.websocket = last.before
    /\ (last.op = "retarget" /\ last.before.conn)
        => last.close_called /\ loop.websocket = NoSocket

\* C38 as stated: at most one connection established by the loop is open at
\* any time, the one the loop holds: every handle was closed when dropped.
C38_OneOpenConnection ==
    /\ ConnectsWhenNeededClosesWhenDropping
    /\ env.open = HeldOpen

\* C38: the loop has one handle; it connects only when the handle is None or
\* closed, and calls close on every handle it drops, after a send failure and
\* after a change of endpoint; the open connections it established are the
\* one it holds and at most one for every close that raised.
C38_OneHandleCloseCalled ==
    /\ ConnectsWhenNeededClosesWhenDropping
    /\ env.open >= HeldOpen
    /\ env.open - HeldOpen <= env.close_raised

\* the endpoint changed while the loop held the open connection of two
\* sends: close was called on it, no connection is open, the handle is None
C38_Witness ==
    /\ last.op = "retarget"
    /\ last.before.conn
    /\ ~last.before.closed
    /\ last.close_called
    /\ hist.calls = 2
    /\ env.close_raised = 0
    /\ env.open = 0
    /\ loop.websocket = NoSocket

-----------------------------------------------------------------------------
(* Spec: run_bridge, one process run, with the notification source, the
   transport, the file system's faults and edits of the config file from
   outside as its environment.  Every action is the code between two awaits. *)

\* _prune_seen's defaults: max_age_seconds = 86400.0 (in tenths), max_size = 2000
PruneMaxAge == 864000
PruneMaxSize == 2000

\* the config cfg with xs_overlay.ws_url set to ws_url
WithWsUrlSet(cfg, ws_url) ==
    Put(cfg, "xs_overlay", Put(GetOr(cfg, "xs_overlay", EmptyDict), "ws_url", Str(ws_url)))

\* last_reset left in the config file by an earlier run
PrevSession == IsoFormat(-1)
\* the config file an earlier run left: App1 was learnt and shown in that session
PrevRunConfig == MakeConfig({DiscordKey}, {}, TRUE, PrevSession, {App1}, {App1})

\* a config file whose xs_overlay.ws_url is the empty text
NoEndpointConfig == WithWsUrlSet(PrevRunConfig, <<>>)

\* run_bridge's arguments (ws_url, poll_interval); the empty text and Null
\* stand for None
NoArgs == [ws_url |-> <<>>, poll_interval |-> Null]

LoopStart(args) ==
    [pc |-> "start", args |-> args, session_id |-> Null, last_config_mtime |-> 0,
     websocket |-> NoSocket, current_ws_url |-> Null, ws_url_value |-> Null,
     poll_delay |-> 0, notifications |-> <<>>, changed |-> FALSE, exit_code |-> -1,
     listener |-> FALSE, last_send_error_at |-> 0]

RecordIds == 1..MaxRecords

\* the sources that post notifications in the run: the default allow entry and
\* an application no list names
Sources == {DiscordKey, App1}

Init ==
    /\ config = default_config
    /\ last = NoLast
    /\ granted = {}
    /\ seen = <<>>
    /\ \/ /\ fs = NoFs
          /\ loop = LoopStart(NoArgs)
       \/ /\ fs = [NoFs EXCEPT !.primary = FileOf(json_dumps(PrevRunConfig), 0)]
          /\ loop = LoopStart([ws_url |-> UrlPlain, poll_interval |-> Num(5)])
       \/ /\ fs = [NoFs EXCEPT !.primary = FileOf(json_dumps(NoEndpointConfig), 0)]
          /\ loop = LoopStart(NoArgs)
    /\ env = [clock |-> 0, center |-> <<>>, polls |-> 0, faults |-> 0]
    /\ hist = [sent |-> [i \in RecordIds |-> 0], evicted |-> [i \in RecordIds |-> 0],
               promoted |-> {}, mutated |-> FALSE, edits |-> <<>>,
               attempts |-> [i \in RecordIds |-> 0]]

\* config.get("xs_overlay", {}).get(key, default)
XsOverlayGet(cfg, key, default) == GetOr(GetOr(cfg, "xs_overlay", EmptyDict), key, default)
\* the .get on config["xs_overlay"] raises when the value is not a dict
XsOverlayRaises(cfg) == ~IsDict(GetOr(cfg, "xs_overlay", EmptyDict))

\* datetime.now(timezone.utc) read when the monotonic clock reads env.clock
Now == env.clock

\* a failing step is charged to the run's budget of disturbances
FaultAllowed(F) == F = {} \/ env.faults < MaxFaults
Charge(F) == IF F = {} THEN env.faults ELSE env.faults + 1

Crashed == [loop EXCEPT !.pc = "crashed"]
Exit(code) == [loop EXCEPT !.pc = "done", !.exit_code = code]

\* if ws_url: config.setdefault("xs_overlay", {})["ws_url"] = ws_url
WithWsUrl(cfg, ws_url) ==
    IF ws_url # <<>> THEN WithWsUrlSet(cfg, ws_url) ELSE cfg

\* if poll_interval is not None: config["poll_interval_seconds"] = poll_interval
WithPollInterval(cfg, poll_interval) ==
    IF poll_interval # Null THEN Put(cfg, "poll_interval_seconds", poll_interval) ELSE cfg

\* if reset_learning_state(config, session_id): save_config(config)
\* rs is what reset_learning_state returned, dir the directory before the save,
\* next the loop's locals after the step, rec the record of the step
ResetSaved(dir, rs, next, F, rec) ==
    /\ config' = rs.config
    /\ fs' = IF rs.ret THEN save_config(dir, rs.config, F).fs ELSE dir
    /\ loop' = next
    /\ last' = [rec EXCEPT !.reset = rs.ret]

\* a startup that resets the learning state and does not save
StartLoaded_unsaved(ld, session_id, F, rec) ==
    IF ld.raised \/ (loop.args.ws_url # <<>> /\ XsOverlayRaises(ld.value))
    THEN /\ loop' = Crashed
         /\ fs' = ld.fs
         /\ last' = rec
         /\ UNCHANGED config
    ELSE /\ config' = reset_learning_state(
                          WithPollInterval(WithWsUrl(ld.value, loop.args.ws_url),
                                           loop.args.poll_interval),
                          session_id).config
         /\ fs' = ld.fs
         /\ loop' = [loop EXCEPT !.pc = "init_listener", !.session_id = session_id]
         /\ last' = [rec EXCEPT !.reset = TRUE]

\* a startup that applies the arguments only after the startup save
StartLoaded_overrides_unsaved(ld, session_id, F, rec) ==
    IF ld.raised \/ (loop.args.ws_url # <<>> /\ XsOverlayRaises(ld.value))
    THEN /\ loop' = Crashed
         /\ fs' = ld.fs
         /\ last' = rec
         /\ UNCHANGED config
    ELSE /\ config' = WithPollInterval(
                          WithWsUrl(reset_learning_state(ld.value, session_id).config,
                                    loop.args.ws_url),
                          loop.args.poll_interval)
         /\ fs' = save_config(ld.fs, reset_learning_state(ld.value, session_id).config,
                              F).fs
         /\ loop' = [loop EXCEPT !.pc = "init_listener", !.session_id = session_id]
         /\ last' = [rec EXCEPT !.reset = TRUE]

\* run_bridge lines 331-340 with ld what load_config returned
StartLoaded(ld, session_id, F, rec) ==
    IF ld.raised \/ (loop.args.ws_url # <<>> /\ XsOverlayRaises(ld.value))
    THEN /\ loop' = Crashed
         /\ fs' = ld.fs
         /\ last' = rec
         /\ UNCHANGED config
    ELSE ResetSaved(ld.fs,
                    reset_learning_state(
                        WithPollInterval(WithWsUrl(ld.value, loop.args.ws_url),
                                         loop.args.poll_interval),
                        session_id),
                    [loop EXCEPT !.pc = "init_listener", !.session_id = session_id],
                    F, rec)

\* run_bridge lines 330-340: load the config, apply the arguments, reset the
\* learning state for the session id and save if that changed the config
Start(F) ==
    /\ loop.pc = "start"
    /\ FaultAllowed(F)
    /\ StartLoaded(load_config(fs, NoFallback, F), IsoFormat(Now), F,
                   [op |-> "start", reset |-> FALSE])
    /\ env' = [env EXCEPT !.faults = Charge(F)]
    /\ UNCHANGED <<granted, seen, hist>>

\* an endpoint resolution that does not test for the empty endpoint
Resolved_unchecked(ws_url_value) ==
    [loop EXCEPT
        !.pc = "head",
        !.listener = TRUE,
        !.ws_url_value = ws_url_value,
        !.current_ws_url = ws_url_value,
        !.poll_delay =
            _safe_poll_interval(GetOr(config, "poll_interval_seconds", Null)).v,
        !.last_config_mtime = IF fs.primary.exists THEN fs.primary.mtime ELSE 0,
        !.websocket = NoSocket]

\* run_bridge lines 348-374 with ws_url_value read from the config
Resolved(ws_url_value) ==
    IF ~Truthy(ws_url_value)
    THEN [loop EXCEPT !.pc = "done", !.exit_code = 1, !.listener = TRUE,
                      !.ws_url_value = ws_url_value]
    ELSE [loop EXCEPT
            !.pc = "head",
            !.listener = TRUE,
            !.ws_url_value = ws_url_value,
            !.current_ws_url = ws_url_value,
            !.poll_delay =
                _safe_poll_interval(GetOr(config, "poll_interval_seconds", Null)).v,
            !.last_config_mtime = IF fs.primary.exists THEN fs.primary.mtime ELSE 0,
            !.websocket = NoSocket]

\* What the notification source does to _init_listener:
\*   import_fails      the winrt modules cannot be imported
\*   type_absent       ApiInformation.is_type_present(...) is false
\*   listener_missing  UserNotificationListener has no current listener
\*   access_denied     the access request is not answered with "allowed"
\*   granted           the access request is answered with "allowed"
ListenerOutcomes ==
    {"import_fails", "type_absent", "listener_missing", "access_denied", "granted"}

\* _init_listener(): whether it returns the listener (else None), and its log
_init_listener(outcome) ==
    [listener |-> outcome = "granted",
     log |-> CASE outcome = "import_fails" -> <<"winrt_import_failed">>
               [] outcome = "type_absent" -> <<"notification_listener_unavailable">>
               [] outcome = "listener_missing" -> <<"notification_listener_missing">>
               [] outcome = "access_denied" -> <<"notification_access_denied">>
               [] outcome = "granted" -> <<>>]

\* run_bridge lines 342-374: _init_listener returns the listener or None
\* (unavailable, or access denied); then the endpoint is resolved
InitListener(outcome) ==
    /\ loop.pc = "init_listener"
    /\ loop' = IF ~_init_listener(outcome).listener THEN Exit(1)
               ELSE IF XsOverlayRaises(config) THEN Crashed
               ELSE Resolved(XsOverlayGet(config, "ws_url", Str(<<>>)))
    /\ last' = [op |-> "init_listener", outcome |-> outcome,
                listener |-> _init_listener(outcome).listener,
                log |-> _init_listener(outcome).log]
    /\ UNCHANGED <<config, granted, seen, fs, env, hist>>

\* a reload that skips the session reset check
Retargeted_unreset(cfg, dir, ws_url_value, F, rec) ==
    IF ~Truthy(ws_url_value)
    THEN /\ loop' = [loop EXCEPT !.pc = "done", !.exit_code = 1,
                                 !.last_config_mtime = fs.primary.mtime,
                                 !.ws_url_value = ws_url_value]
         /\ fs' = dir
         /\ config' = cfg
         /\ last' = rec
    ELSE /\ config' = cfg
         /\ fs' = dir
         /\ loop' = [loop EXCEPT
                        !.pc = "poll",
                        !.last_config_mtime = fs.primary.mtime,
                        !.ws_url_value = ws_url_value,
                        !.current_ws_url = ws_url_value,
                        !.websocket = IF ws_url_value # loop.current_ws_url
                                      THEN NoSocket ELSE @,
                        !.poll_delay = _safe_poll_interval(
                                          GetOr(cfg, "poll_interval_seconds", Null)).v]
         /\ last' = rec

\* a reload that keeps the connection when the endpoint changed
Retargeted_keeps_connection(cfg, dir, ws_url_value, F, rec) ==
    IF ~Truthy(ws_url_value)
    THEN /\ loop' = [loop EXCEPT !.pc = "done", !.exit_code = 1,
                                 !.last_config_mtime = fs.primary.mtime,
                                 !.ws_url_value = ws_url_value]
         /\ fs' = dir
         /\ config' = cfg
         /\ last' = rec
    ELSE ResetSaved(dir,
                    reset_learning_state(cfg, loop.session_id),
                    [loop EXCEPT
                        !.pc = "poll",
                        !.last_config_mtime = fs.primary.mtime,
                        !.ws_url_value = ws_url_value,
                        !.current_ws_url = ws_url_value,
                        !.poll_delay = _safe_poll_interval(
                                          GetOr(cfg, "poll_interval_seconds", Null)).v],
                    F, rec)

\* a reload that does not note the modification time it read
Retargeted_mtime_unrecorded(cfg, dir, ws_url_value, F, rec) ==
    IF ~Truthy(ws_url_value)
    THEN /\ loop' = [loop EXCEPT !.pc = "done", !.exit_code = 1,
                                 !.last_config_mtime = @,
                                 !.ws_url_value = ws_url_value]
         /\ fs' = dir
         /\ config' = cfg
         /\ last' = rec
    ELSE ResetSaved(dir,
                    reset_learning_state(cfg, loop.session_id),
                    [loop EXCEPT
                        !.pc = "poll",
                        !.last_config_mtime = @,
                        !.ws_url_value = ws_url_value,
                        !.current_ws_url = ws_url_value,
                        !.websocket = IF ws_url_value # loop.current_ws_url
                                      THEN NoSocket ELSE @,
                        !.poll_delay = _safe_poll_interval(
                                          GetOr(cfg, "poll_interval_seconds", Null)).v],
                    F, rec)

\* run_bridge lines 385-405 with cfg the reloaded config and ws_url_value its
\* endpoint
Retargeted(cfg, dir, ws_url_value, F, rec) ==
    IF ~Truthy(ws_url_value)
    THEN /\ loop' = [loop EXCEPT !.pc = "done", !.exit_code = 1,
                                 !.last_config_mtime = fs.primary.mtime,
                                 !.ws_url_value = ws_url_value]
         /\ fs' = dir
         /\ config' = cfg
         /\ last' = rec
    ELSE ResetSaved(dir,
                    reset_learning_state(cfg, loop.session_id),
                    [loop EXCEPT
                        !.pc = "poll",
                        !.last_config_mtime = fs.primary.mtime,
                        !.ws_url_value = ws_url_value,
                        !.current_ws_url = ws_url_value,
                        !.websocket = IF ws_url_value # loop.current_ws_url
                                      THEN NoSocket ELSE @,
                        !.poll_delay = _safe_poll_interval(
                                          GetOr(cfg, "poll_interval_seconds", Null)).v],
                    F, rec)

\* run_bridge lines 383-405 with ld what load_config(fallback=config) returned
Reloaded(ld, F, rec) ==
    IF ld.raised \/ XsOverlayRaises(ld.value)
    THEN /\ loop' = Crashed
         /\ fs' = ld.fs
         /\ last' = rec
         /\ UNCHANGED config
    ELSE Retargeted(ld.value, ld.fs, XsOverlayGet(ld.value, "ws_url", Str(<<>>)), F,
                    [rec EXCEPT !.loaded_last_reset =
                                    GetOr(GetOr(ld.value, "learning", EmptyDict),
                                          "last_reset", Null),
                                !.loaded_shown =
                                    GetOr(GetOr(ld.value, "learning", EmptyDict),
                                          "shown_session", EmptyDict)])

\* the record of a pass through the loop head: whether the file was reloaded,
\* whether its text was no JSON object then and the backup's was one, the
\* loop's state before, what the reload found in the file's learning section,
\* and whether reset_learning_state returned True
HeadRec(reloaded) ==
    [op |-> "head", reloaded |-> reloaded,
     unparsable |-> ~_read_json(fs.primary).ok,
     backup_usable |-> _read_json(fs.backup).ok,
     config_before |-> config, ws_before |-> loop.websocket,
     url_before |-> loop.ws_url_value, faults_before |-> env.faults,
     loaded_last_reset |-> Null, loaded_shown |-> EmptyDict, reset |-> FALSE]

\* the pass through the loop head wrote the config file: load_config restored
\* the backup, or the reset check saved; a failing step of the file system is
\* drawn for such a pass only
WroteAtHead(rec) ==
    rec.reset \/ (rec.reloaded /\ rec.unparsable /\ rec.backup_usable)

\* run_bridge lines 377-405: hot reload when the file's mtime advanced, then
\* the session reset check and its save
LoopHead(F) ==
    /\ loop.pc = "head"
    /\ FaultAllowed(F)
    /\ IF fs.primary.exists /\ fs.primary.mtime > loop.last_config_mtime
       THEN Reloaded(load_config(fs, Fallback(config), F), F, HeadRec(TRUE))
       ELSE ResetSaved(fs, reset_learning_state(config, loop.session_id),
                       [loop EXCEPT !.pc = "poll"], F, HeadRec(FALSE))
    /\ F # {} => WroteAtHead(last')
    /\ env' = [env EXCEPT !.faults = Charge(F)]
    /\ UNCHANGED <<granted, seen, hist>>

MaxOf(a, b) == IF a > b THEN a ELSE b

\* the batch _get_notifications returns: the ids of the records in the center
Batch(center) == [i \in 1..Len(center) |-> i]

\* a failed poll followed by a sleep of the poll interval
PollSleep_short(poll_delay) == poll_delay

\* await asyncio.sleep(max(poll_delay, 1.0)), in tenths
PollSleep(poll_delay) == MaxOf(poll_delay, 10)

\* run_bridge lines 407-414: the source returns the notifications of the
\* notification center (those seen before and those that arrived since: arrived
\* holds the source keys of the new ones), or the poll raises and the loop
\* logs, sleeps and goes back to the loop head
Poll(polled, arrived) ==
    /\ loop.pc = "poll"
    /\ env.polls < MaxPolls
    /\ Len(env.center) + Len(arrived) <= MaxRecords
    /\ polled \/ env.faults < MaxFaults
    /\ IF polled
       THEN /\ loop' = [loop EXCEPT !.pc = "process", !.changed = FALSE,
                                    !.notifications = Batch(env.center \o arrived)]
            /\ env' = [env EXCEPT !.center = @ \o arrived, !.polls = @ + 1]
            /\ last' = [op |-> "poll", polled |-> TRUE, log |-> <<>>]
       ELSE /\ loop' = [loop EXCEPT !.pc = "head"]
            /\ env' = [env EXCEPT !.center = @ \o arrived, !.polls = @ + 1,
                                  !.faults = @ + 1,
                                  !.clock = @ + PollSleep(loop.poll_delay)]
            /\ last' = [op |-> "poll", polled |-> FALSE,
                        log |-> <<"notification_poll_failed">>]
    /\ hist' = [hist EXCEPT !.mutated = IF polled THEN FALSE ELSE @]
    /\ UNCHANGED <<config, granted, seen, fs>>

\* _notification_key(user_notification, app_key) for the record with id i
_notification_key(app_key, i) == <<app_key, i>>

\* run_bridge lines 419-420: the record's key is in seen
Skipped(i, app_key) ==
    /\ loop' = [loop EXCEPT !.notifications = Tail(@)]
    /\ last' = [op |-> "process", id |-> i, key |-> app_key,
                skipped |-> TRUE, sent |-> FALSE, over |-> NoSocket,
                allow |-> FALSE, failed |-> FALSE, log |-> <<>>]
    /\ UNCHANGED <<config, granted, seen, hist>>

\* the log of run_bridge lines 430-459 for a record that was evaluated
ProcessLog(decision, snd) ==
    IF ~decision.decision.allow THEN <<"notification_suppressed">>
    ELSE IF snd.ok THEN <<"notification_sent">>
    ELSE IF SendErrorLogged(time_time, loop.last_send_error_at)
    THEN <<"notification_send_failed">>
    ELSE <<>>

\* a loop body that notes a mutation only when the record was sent
Handled_changed_when_sent(i, app_key, decision, snd) ==
    /\ seen' = MarkSeen(seen, _notification_key(app_key, i), env.clock)
    /\ config' = decision.config
    /\ granted' = IF decision.decision.reason = "learning_allow"
                  THEN granted \cup {app_key} ELSE granted
    /\ loop' = [loop EXCEPT
            !.notifications = Tail(@),
            !.changed = @ \/ (decision.decision.updated /\ decision.decision.allow
                                /\ snd.ok),
            !.websocket = IF decision.decision.allow /\ ~snd.raised
                          THEN snd.websocket ELSE @,
            !.last_send_error_at =
                IF decision.decision.allow /\ ~snd.ok
                   /\ SendErrorLogged(time_time, loop.last_send_error_at)
                THEN time_time ELSE @]
    /\ hist' = [hist EXCEPT
            !.sent[i] = IF decision.decision.allow /\ snd.ok THEN @ + 1 ELSE @,
            !.attempts[i] = IF decision.decision.allow THEN @ + 1 ELSE @,
            !.mutated = @ \/ decision.config # config]
    /\ last' = [op |-> "process", id |-> i, key |-> app_key,
                skipped |-> FALSE, sent |-> decision.decision.allow /\ snd.ok,
                over |-> IF decision.decision.allow THEN snd.over ELSE NoSocket,
                allow |-> decision.decision.allow,
                failed |-> decision.decision.allow /\ ~snd.ok,
                log |-> ProcessLog(decision, snd)]

\* a loop body that marks a record seen only once its decision allowed it
Handled_seen_when_allowed(i, app_key, decision, snd) ==
    /\ seen' = IF decision.decision.allow
               THEN MarkSeen(seen, _notification_key(app_key, i), env.clock)
               ELSE seen
    /\ config' = decision.config
    /\ granted' = IF decision.decision.reason = "learning_allow"
                  THEN granted \cup {app_key} ELSE granted
    /\ loop' = [loop EXCEPT
            !.notifications = Tail(@),
            !.changed = @ \/ decision.decision.updated,
            !.websocket = IF decision.decision.allow /\ ~snd.raised
                          THEN snd.websocket ELSE @,
            !.last_send_error_at =
                IF decision.decision.allow /\ ~snd.ok
                   /\ SendErrorLogged(time_time, loop.last_send_error_at)
                THEN time_time ELSE @]
    /\ hist' = [hist EXCEPT
            !.sent[i] = IF decision.decision.allow /\ snd.ok THEN @ + 1 ELSE @,
            !.attempts[i] = IF decision.decision.allow THEN @ + 1 ELSE @,
            !.mutated = @ \/ decision.config # config]
    /\ last' = [op |-> "process", id |-> i, key |-> app_key,
                skipped |-> FALSE, sent |-> decision.decision.allow /\ snd.ok,
                over |-> IF decision.decision.allow THEN snd.over ELSE NoSocket,
                allow |-> decision.decision.allow,
                failed |-> decision.decision.allow /\ ~snd.ok,
                log |-> ProcessLog(decision, snd)]

\* a loop body that leaves a record whose send failed out of the cache, so
\* that the next poll tries it again
Handled_retry_failed(i, app_key, decision, snd) ==
    /\ seen' = IF decision.decision.allow /\ ~snd.ok
               THEN seen
               ELSE MarkSeen(seen, _notification_key(app_key, i), env.clock)
    /\ config' = decision.config
    /\ granted' = IF decision.decision.reason = "learning_allow"
                  THEN granted \cup {app_key} ELSE granted
    /\ loop' = [loop EXCEPT
            !.notifications = Tail(@),
            !.changed = @ \/ decision.decision.updated,
            !.websocket = IF decision.decision.allow /\ ~snd.raised
                          THEN snd.websocket ELSE @,
            !.last_send_error_at =
                IF decision.decision.allow /\ ~snd.ok
                   /\ SendErrorLogged(time_time, loop.last_send_error_at)
                THEN time_time ELSE @]
    /\ hist' = [hist EXCEPT
            !.sent[i] = IF decision.decision.allow /\ snd.ok THEN @ + 1 ELSE @,
            !.attempts[i] = IF decision.decision.allow THEN @ + 1 ELSE @,
            !.mutated = @ \/ decision.config # config]
    /\ last' = [op |-> "process", id |-> i, key |-> app_key,
                skipped |-> FALSE, sent |-> decision.decision.allow /\ snd.ok,
                over |-> IF decision.decision.allow THEN snd.over ELSE NoSocket,
                allow |-> decision.decision.allow,
                failed |-> decision.decision.allow /\ ~snd.ok,
                log |-> ProcessLog(decision, snd)]

\* run_bridge lines 421-459 with decision what _evaluate_notification returned
\* and snd what _send_xs_notification returns if it is called
Handled(i, app_key, decision, snd) ==
    /\ seen' = MarkSeen(seen, _notification_key(app_key, i), env.clock)
    /\ config' = decision.config
    /\ granted' = IF decision.decision.reason = "learning_allow"
                  THEN granted \cup {app_key} ELSE granted
    /\ loop' = [loop EXCEPT
            !.notifications = Tail(@),
            !.changed = @ \/ decision.decision.updated,
            !.websocket = IF decision.decision.allow /\ ~snd.raised
                          THEN snd.websocket ELSE @,
            !.last_send_error_at =
                IF decision.decision.allow /\ ~snd.ok
                   /\ SendErrorLogged(time_time, loop.last_send_error_at)
                THEN time_time ELSE @]
    /\ hist' = [hist EXCEPT
            !.sent[i] = IF decision.decision.allow /\ snd.ok THEN @ + 1 ELSE @,
            !.attempts[i] = IF decision.decision.allow THEN @ + 1 ELSE @,
            !.mutated = @ \/ decision.config # config]
    /\ last' = [op |-> "process", id |-> i, key |-> app_key,
                skipped |-> FALSE, sent |-> decision.decision.allow /\ snd.ok,
                over |-> IF decision.decision.allow THEN snd.over ELSE NoSocket,
                allow |-> decision.decision.allow,
                failed |-> decision.decision.allow /\ ~snd.ok,
                log |-> ProcessLog(decision, snd)]

\* the transport is reached only for a record that is allowed
Evaluated(i, app_key, decision, outcome) ==
    /\ decision.decision.allow \/ outcome = "ok"
    /\ Handled(i, app_key, decision,
               _send_xs_notification(loop.ws_url_value.v, loop.websocket, outcome))

\* run_bridge lines 415-459 for the record with id i of the source app_key
ProcessRecord(i, app_key, outcome) ==
    IF InSeen(seen, _notification_key(app_key, i))
    THEN outcome = "ok" /\ Skipped(i, app_key)
    ELSE Evaluated(i, app_key,
                   evaluate(config, app_key, DisplayName(app_key), Now), outcome)

\* run_bridge lines 415-459, one pass of the for loop: the next record of the
\* batch is skipped when cached, else marked seen, evaluated and, when allowed,
\* sent under the transport's outcome
Process(outcome) ==
    /\ loop.pc = "process"
    /\ loop.notifications # <<>>
    /\ outcome = "ok" \/ env.faults < MaxFaults
    /\ ProcessRecord(Head(loop.notifications), env.center[Head(loop.notifications)],
                     outcome)
    /\ env' = [env EXCEPT !.faults = IF outcome = "ok" THEN @ ELSE @ + 1]
    /\ UNCHANGED fs

\* the ids of the records whose entry is in the cache s and not in pruned
Evicted(s, pruned) ==
    {i \in RecordIds :
        \E n \in 1..Len(s) : s[n].key[2] = i /\ ~InSeen(pruned, s[n].key)}

\* run_bridge line 463 with pruned the cache as _prune_seen leaves it
Pruned(pruned) ==
    /\ seen' = pruned
    /\ hist' = [hist EXCEPT !.evicted =
                  [i \in RecordIds |-> IF i \in Evicted(seen, pruned)
                                       THEN @[i] + 1 ELSE @[i]]]

\* run_bridge lines 461-464: save when the batch changed the config, prune the
\* cache, sleep; the sleep lasts poll_delay or, the machine suspended, longer
\* than the cache's retention
Finish(F, overslept) ==
    /\ loop.pc = "process"
    /\ loop.notifications = <<>>
    /\ loop.changed \/ F = {}
    /\ env.faults + (IF F = {} THEN 0 ELSE 1) + (IF overslept THEN 1 ELSE 0) <= MaxFaults
    /\ fs' = IF loop.changed THEN save_config(fs, config, F).fs ELSE fs
    /\ Pruned(_prune_seen(seen, env.clock, PruneMaxAge, PruneMaxSize))
    /\ env' = [env EXCEPT !.faults = Charge(F) + (IF overslept THEN 1 ELSE 0),
                          !.clock = @ + loop.poll_delay
                                      + (IF overslept THEN PruneMaxAge ELSE 0)]
    /\ loop' = [loop EXCEPT !.pc = "head"]
    /\ last' = [op |-> "finish", saved |-> loop.changed, mutated |-> hist.mutated]
    /\ UNCHANGED <<config, granted>>

\* the document doc of the config file with the list filters[name] extended by key
WithListed(doc, name, key) ==
    Put(doc, "filters",
        Put(GetOr(doc, "filters", EmptyDict), name,
            List(Append(GetOr(GetOr(doc, "filters", EmptyDict), name, EmptyList).v,
                        Str(key)))))

\* Someone edits config.json while the bridge runs:
\*   garbage  the file is left unparsable
\*   touch    the file is rewritten with the content it has
\*   block    the default allow entry is added to filters.block
\*   promote  App1 is added to filters.allow
\*   retarget xs_overlay.ws_url is set to another endpoint
\*   unset    xs_overlay.ws_url is set to the empty text
\*   badsection  filters is set to a text
EditKinds == {"garbage", "touch", "block", "promote", "retarget", "unset", "badsection"}

\* the text an edit of the given kind leaves in a file holding text
Edited(kind, text, doc) ==
    CASE kind = "garbage" -> Garbage
      [] kind = "touch" -> text
      [] kind = "block" -> json_dumps(WithListed(doc, "block", DiscordKey))
      [] kind = "promote" -> json_dumps(WithListed(doc, "allow", App1))
      [] kind = "retarget" -> json_dumps(WithWsUrl(doc, UrlQuery))
      [] kind = "unset" -> json_dumps(WithWsUrlSet(doc, <<>>))
      [] kind = "badsection" -> json_dumps(Put(doc, "filters", Str("x")))

\* The edits are made while the loop sleeps between two iterations, where it
\* spends its time.
ExternalEdit(kind) ==
    /\ loop.pc = "head"
    /\ env.faults < MaxFaults
    /\ kind = "garbage" \/ _read_json(fs.primary).ok
    /\ kind \in {"block", "promote"}
        => IsDict(GetOr(_read_json(fs.primary).data, "filters", EmptyDict))
    /\ fs' = [fs EXCEPT
                !.primary = FileOf(Edited(kind, fs.primary.text,
                                          _read_json(fs.primary).data),
                                   fs.clock + 1),
                !.clock = @ + 1]
    /\ env' = [env EXCEPT !.faults = @ + 1]
    /\ hist' = [hist EXCEPT !.promoted = IF kind = "promote" THEN @ \cup {App1} ELSE @,
                            !.edits = Append(@, kind)]
    /\ UNCHANGED <<config, last, granted, seen, loop>>

Next ==
    \/ \E F \in FaultSets : Start(F)
    \/ \E outcome \in ListenerOutcomes : InitListener(outcome)
    \/ \E F \in FaultSets : LoopHead(F)
    \/ \E polled \in BOOLEAN, arrived \in {<<>>} \cup {<<k>> : k \in Sources} :
            Poll(polled, arrived)
    \/ \E outcome \in SendOutcomes : Process(outcome)
    \/ \E F \in FaultSets, overslept \in BOOLEAN : Finish(F, overslept)
    \/ \E kind \in EditKinds : ExternalEdit(kind)

Spec == Init /\ [][Next]_vars

\* the number of successful sends of records of the source app_key so far
RECURSIVE SentUpTo(_, _)
SentUpTo(app_key, n) ==
    IF n = 0 THEN 0
    ELSE SentUpTo(app_key, n - 1)
         + (IF env.center[n] = app_key THEN hist.sent[n] ELSE 0)
SentOf(app_key) == SentUpTo(app_key, Len(env.center))

Running == loop.pc \notin {"none", "start"}

\* C3: in the running loop, a source that stays outside allow and block while
\* learning is enabled (no edit promoted it) has at most one notification sent
\* to the transport during the process run, whatever saves, reloads, restores,
\* save failures and edits happen.
C3_OneSendPerLearningSource ==
    Running =>
        \A k \in Sources :
            ( /\ k \notin hist.promoted
              /\ Str(k) \notin AllowOf(config) \cup BlockOf(config)
              /\ EnabledOf(config) )
            => SentOf(k) <= 1

\* C6 as stated: no record is forwarded more than once during a process run.
C6_ForwardedAtMostOnce ==
    Running => \A i \in RecordIds : hist.sent[i] <= 1

\* C6: a record the source yields again is not forwarded again while its dedup
\* identity is in the cache: it is forwarded at most once, plus once for every
\* time _prune_seen evicted its identity.
C6_ForwardedOncePerCaching ==
    Running => \A i \in RecordIds : hist.sent[i] <= 1 + hist.evicted[i]

\* a record that was forwarded is yielded again by a later poll and skipped
C6_Witness ==
    /\ Running
    /\ last.op = "process"
    /\ last.skipped
    /\ hist.sent[last.id] = 1
    /\ InSeen(seen, _notification_key(last.key, last.id))

\* the endpoint run_bridge sends to
Endpoint == _ensure_client_param(loop.ws_url_value.v)

\* C20: a hot reload that finds another endpoint leaves the connection handle
\* None and one that finds the same endpoint leaves the handle as it was; every
\* message is sent over a connection established to the endpoint then in
\* force, and a held connection is always one to the endpoint in force.
C20_ReloadRetargetsConnection ==
    /\ (last.op = "head" /\ last.reloaded /\ loop.pc = "poll")
        => /\ loop.ws_url_value # last.url_before => loop.websocket = NoSocket
           /\ loop.ws_url_value = last.url_before => loop.websocket = last.ws_before
    /\ (last.op = "process" /\ last.over.conn) => last.over.url = Endpoint
    /\ (loop.pc \in {"head", "poll", "process"} /\ loop.websocket.conn)
        => loop.websocket.url = Endpoint

\* the first record was sent before an edit of the endpoint, the second after
\* the reload, over a connection to the new endpoint
C20_Witness ==
    /\ last.op = "process"
    /\ last.sent
    /\ last.id = 2
    /\ hist.sent[1] = 1
    /\ loop.ws_url_value = Str(UrlQuery)
    /\ last.over = Socket(_ensure_client_param(UrlQuery))
    /\ loop.websocket = last.over

\* config.get("xs_overlay", {}).get("ws_url", "")
EndpointOf(cfg) == XsOverlayGet(cfg, "ws_url", Str(<<>>))

\* run_bridge returned at startup; after a hot reload
ExitedAtStartup == loop.pc = "done" /\ last.op = "init_listener"
ExitedAfterReload == loop.pc = "done" /\ last.op = "head"

Steady == loop.current_ws_url # Null

\* C22: once the loop was entered, the run ends only by the return after a hot
\* reload that found an empty endpoint: whatever poll, send, connect, import,
\* parse and save failures and malformed config values occur, the loop goes on.
C22_OnlyEmptyEndpointEndsLoop ==
    (Steady /\ loop.pc \in {"done", "crashed"})
        => /\ ExitedAfterReload
           /\ last.reloaded
           /\ ~Truthy(EndpointOf(config))

\* C23: a failing poll is logged, the loop sleeps max(poll_delay, 1.0) seconds,
\* at least one second, and goes back to the loop head; the step processes no
\* record, sends nothing and leaves the dedup cache, the config, the config
\* file and the connection as they were.
C23_PollFailureSleepsAndRetries ==
    [][(loop.pc = "poll" /\ last'.op = "poll" /\ ~last'.polled)
        => /\ loop'.pc = "head"
           /\ last'.log = <<"notification_poll_failed">>
           /\ env'.clock - env.clock = MaxOf(loop.poll_delay, 10)
           /\ env'.clock - env.clock >= 10
           /\ seen' = seen
           /\ config' = config
           /\ fs' = fs
           /\ hist'.sent = hist.sent
           /\ loop'.websocket = loop.websocket
           /\ loop'.notifications = loop.notifications
      ]_vars

\* a poll failed in a run whose poll interval is half a second, and the loop
\* is back at its head one second later
C23_Witness ==
    /\ last.op = "poll"
    /\ ~last.polled
    /\ loop.pc = "head"
    /\ loop.poll_delay = 5
    /\ env.clock >= 10

\* C25: at the end of a batch the config is saved exactly when a filter
\* decision of the batch changed it, whether or not the record that changed it
\* was sent: a batch without a change leaves the file alone, and after a
\* batch with a change save_config was called, which, when no step of it
\* fails, leaves the file holding the config.
C25_SavedIffMutated ==
    [][(loop.pc = "process" /\ loop'.pc = "head")
        => /\ loop.changed = hist.mutated
           /\ last'.saved = hist.mutated
           /\ ~hist.mutated => fs' = fs
           /\ (hist.mutated /\ env'.faults = env.faults)
                => /\ fs'.clock > fs.clock
                   /\ _read_json(fs'.primary).ok
                   /\ _read_json(fs'.primary).data = config
      ]_vars

\* the only record of the batch was let through by learning, its send failed,
\* and the config with the learning entries is in the file
C25_Witness ==
    /\ last.op = "finish"
    /\ last.saved
    /\ loop.last_send_error_at # 0
    /\ \A i \in RecordIds : hist.sent[i] = 0
    /\ Has(ShownOf(config), App1)
    /\ _read_json(fs.primary).ok
    /\ _read_json(fs.primary).data = config

\* C26: whenever the loop is about to poll, learning.last_reset of the
\* in-memory config is the session id of the run; when the reload of the pass
\* found another last_reset in the file, shown_session is empty,
\* reset_learning_state returned True and save_config was called, which, when
\* no step of the pass fails, leaves the file holding the config.
C26_SessionMarkerAtEveryPoll ==
    /\ loop.pc = "poll" => LastResetOf(config) = loop.session_id
    /\ (loop.pc = "poll" /\ last.op = "head" /\ last.reloaded
            /\ last.loaded_last_reset # loop.session_id)
        => /\ ShownOf(config) = EmptyDict
           /\ last.reset
           /\ env.faults = last.faults_before
                => /\ _read_json(fs.primary).ok
                   /\ _read_json(fs.primary).data = config

\* a reload found the marker and the shown_session of an earlier session in
\* the file, and the loop is about to poll with the marker of this session
C26_Witness ==
    /\ loop.pc = "poll"
    /\ last.op = "head"
    /\ last.reloaded
    /\ last.loaded_last_reset = PrevSession
    /\ last.loaded_shown # EmptyDict
    /\ ShownOf(config) = EmptyDict
    /\ LastResetOf(config) = loop.session_id
    /\ _read_json(fs.primary).data = config

\* C27: after a hot reload of a file that does not parse to an object, the
\* loop goes on with the config and the endpoint it held before.
C27_UnparsableReloadKeepsConfig ==
    (loop.pc = "poll" /\ last.op = "head" /\ last.reloaded /\ last.unparsable)
        => /\ config = last.config_before
           /\ loop.ws_url_value = last.url_before

\* C28: nothing is polled or sent before _init_listener returned a listener
\* and a non-empty endpoint was resolved; when _init_listener is called the
\* config is loaded, carries the arguments' endpoint and poll interval and the
\* session id of the run, and, when no step of the save failed, is in the
\* file; the same holds when startup returns 1.
C28_StartupOrder ==
    /\ (env.polls > 0 \/ \E i \in RecordIds : hist.sent[i] > 0)
        => loop.listener /\ Truthy(loop.current_ws_url)
    /\ (loop.pc = "init_listener" \/ ExitedAtStartup)
        => /\ env.polls = 0
           /\ LastResetOf(config) = loop.session_id
           /\ loop.args.ws_url # <<>> => EndpointOf(config) = Str(loop.args.ws_url)
           /\ loop.args.poll_interval # Null
                => Get(config, "poll_interval_seconds") = loop.args.poll_interval
           /\ env.faults = 0
                => /\ _read_json(fs.primary).ok
                   /\ _read_json(fs.primary).data = config

\* access was denied to a run started with an endpoint argument: the run
\* returned 1 and the file holds the config with the argument and the session id
C28_Witness ==
    /\ ExitedAtStartup
    /\ last.outcome = "access_denied"
    /\ loop.exit_code = 1
    /\ loop.args.ws_url = UrlPlain
    /\ EndpointOf(_read_json(fs.primary).data) = Str(UrlPlain)
    /\ LastResetOf(_read_json(fs.primary).data) = loop.session_id

\* the edits of the config file made so far from outside
ExternalEdits == hist.edits
\* every disturbance of the run so far was an edit from outside: no step of the
\* file system, poll or send failed
OnlyEdits == env.faults = Len(ExternalEdits)
\* the edits that rewrite the file without changing the endpoint and the poll
\* interval it holds
ValueKeepingEdits == {"touch", "block", "promote"}

\* C32: the endpoint and the poll interval given as arguments are in the
\* in-memory config from startup on and are the loop's effective values,
\* through every reload that follows one of the loop's saves, as long as
\* nobody edited the file; when no step failed the file holds them too, and
\* then they also survive the edits that leave the two values alone.
C32_OverridesStayEffective ==
    (/\ Running
     /\ loop.pc # "crashed"
     /\ \/ ExternalEdits = <<>>
        \/ OnlyEdits /\ \A n \in 1..Len(ExternalEdits) :
                            ExternalEdits[n] \in ValueKeepingEdits)
        => /\ loop.args.ws_url # <<>>
                => /\ EndpointOf(config) = Str(loop.args.ws_url)
                   /\ Steady => /\ loop.ws_url_value = Str(loop.args.ws_url)
                                /\ loop.current_ws_url = Str(loop.args.ws_url)
                   /\ OnlyEdits
                        => EndpointOf(_read_json(fs.primary).data)
                                = Str(loop.args.ws_url)
           /\ loop.args.poll_interval # Null
                => /\ Get(config, "poll_interval_seconds") = loop.args.poll_interval
                   /\ Steady => loop.poll_delay
                                    = _safe_poll_interval(loop.args.poll_interval).v
                   /\ OnlyEdits
                        => Get(_read_json(fs.primary).data, "poll_interval_seconds")
                                = loop.args.poll_interval

\* a run started with both arguments saved its config after a batch and
\* reloaded the file it wrote: the arguments are still the effective values
C32_Witness ==
    /\ loop.pc = "poll"
    /\ last.op = "head"
    /\ last.reloaded
    /\ ExternalEdits = <<>>
    /\ loop.args.ws_url = UrlPlain
    /\ loop.args.poll_interval = Num(5)
    /\ loop.ws_url_value = Str(UrlPlain)
    /\ loop.poll_delay = 5
    /\ EndpointOf(_read_json(fs.primary).data) = Str(UrlPlain)
    /\ Has(ShownOf(config), App1)

\* C34: a record of the batch whose key is not cached is marked seen in the
\* pass that evaluates it, whatever the decision; a record whose key is cached
\* is passed over: it is not evaluated, not sent and changes nothing, also
\* when its source was added to the allow list after it was denied.
C34_SeenBeforeDecision ==
    [][(loop.pc = "process" /\ last'.op = "process" /\ loop.notifications # <<>>
            /\ loop'.notifications = Tail(loop.notifications))
        => LET i == Head(loop.notifications)
               key == _notification_key(env.center[i], i)
           IN  /\ InSeen(seen', key)
               /\ last'.id = i
               /\ last'.skipped = InSeen(seen, key)
               /\ InSeen(seen, key)
                    => /\ seen' = seen
                       /\ config' = config
                       /\ hist'.sent = hist.sent
                       /\ loop'.websocket = loop.websocket
                       /\ last'.log = <<>>
      ]_vars

\* the second record of App1 was denied by learning, an edit of the file then
\* put App1 on the allow list, and the next poll passed the record over
C34_Witness ==
    /\ last.op = "process"
    /\ last.skipped
    /\ last.id = 2
    /\ last.key = App1
    /\ App1 \in hist.promoted
    /\ Str(App1) \in AllowOf(config)
    /\ hist.sent[2] = 0
    /\ hist.sent[1] = 1

\* the number of calls of _send_xs_notification made for each record
Attempts == hist.attempts

\* C35 as stated: no record is handed to the sender more than once in a run.
C35_AtMostOneAttempt ==
    Running => \A i \in RecordIds : Attempts[i] <= 1

\* C35: a record is handed to the sender at most once while its key is in the
\* cache (once, plus once for every eviction of the key); the pass in which
\* the send fails leaves the key cached and the learning entries written by
\* the decision in the config; a send that failed on a connection leaves the
\* loop without a handle, so that the next send connects anew, and a failure
\* before any send was called leaves the loop's handle as it was.
C35_OneAttemptPerCaching ==
    /\ [](Running => \A i \in RecordIds : Attempts[i] <= 1 + hist.evicted[i])
    /\ [][(loop.pc = "process" /\ last'.op = "process" /\ loop.notifications # <<>>
                /\ loop'.notifications = Tail(loop.notifications) /\ last'.failed)
            => LET i == Head(loop.notifications)
                   app_key == env.center[i]
                   decision == evaluate(config, app_key, DisplayName(app_key), Now)
               IN  /\ InSeen(seen', _notification_key(app_key, i))
                   /\ Attempts'[i] = Attempts[i] + 1
                   /\ hist'.sent = hist.sent
                   /\ config' = decision.config
                   /\ decision.decision.reason = "learning_allow"
                        => Has(ShownOf(config'), app_key)
                   /\ last'.over.conn => loop'.websocket = NoSocket
                   /\ ~last'.over.conn => loop'.websocket = loop.websocket
          ]_vars
    /\ [][(loop.pc = "process" /\ last'.op = "process" /\ ~last'.skipped
                /\ last'.allow /\ last'.over.conn /\ loop.websocket = NoSocket)
            => last'.over = Socket(_ensure_client_param(loop.ws_url_value.v))
          ]_vars

\* the send of the App1 record let through by learning failed on its
\* connection; the next poll passed the record over and sent a Discord record
\* over a new connection, and the learning entry of App1 is still there
C35_Witness ==
    /\ last.op = "process"
    /\ last.id = 2
    /\ last.sent
    /\ last.over = Socket(_ensure_client_param(loop.ws_url_value.v))
    /\ Attempts[1] = 1
    /\ hist.sent[1] = 0
    /\ env.center[1] = App1
    /\ InSeen(seen, _notification_key(App1, 1))
    /\ Has(ShownOf(config), App1)
    /\ env.polls >= 2

\* C39: in a run nobody edits the file of, a pass through the loop head
\* reloads only right after a batch that saved, the reload returns the config
\* the loop holds, the reset check does not fire and nothing is written; the
\* modification time of the file is then the one the loop noted, so the next
\* pass does not reload; a batch of cached records changes nothing and is
\* followed by no save; the writes of the run are the startup save and one
\* save for every source entered in shown_session, so they come to an end.
C39_OwnSaveReloadsOnce ==
    /\ []((Steady /\ ExternalEdits = <<>> /\ loop.pc \in {"poll", "process"})
            => /\ fs.primary.exists => loop.last_config_mtime = fs.primary.mtime
               /\ fs.clock <= 1 + Cardinality(DictKeys(ShownOf(config))))
    /\ [][(loop.pc = "head" /\ last'.op = "head" /\ ExternalEdits = <<>>)
            => /\ fs' = fs
               /\ config' = config
               /\ ~last'.reset
               /\ last'.reloaded
                    => /\ last.op = "finish"
                       /\ last.saved
                       /\ _read_json(fs.primary).data = config
          ]_vars
    /\ [][(loop.pc = "process" /\ loop'.pc = "head" /\ ~hist.mutated)
            => fs' = fs
          ]_vars
    /\ [][(loop.pc = "process" /\ last'.op = "process" /\ last'.skipped)
            => /\ config' = config
               /\ hist'.mutated = hist.mutated
               /\ loop'.changed = loop.changed
          ]_vars

\* the loop saved after a learning grant, reloaded its own file in the next
\* pass, polled the same record again, saved nothing, and did not reload in
\* the pass after: two writes in all, and the file holds the config
C39_Witness ==
    /\ loop.pc = "poll"
    /\ last.op = "head"
    /\ ~last.reloaded
    /\ ExternalEdits = <<>>
    /\ env.faults = 0
    /\ env.polls = 2
    /\ fs.clock = 2
    /\ loop.last_config_mtime = fs.primary.mtime
    /\ Has(ShownOf(config), App1)
    /\ _read_json(fs.primary).data = config

-----------------------------------------------------------------------------
(* NormalizeSpec: normalize_config called on documents that differ in their
   learning section, as test_normalize_config_migrates_and_sanitizes and
   test_normalize_config_defaults_shown_session call it *)

\* values a learning key may hold in a loaded document
LoadedMappings ==
    {EmptyDict, Dict([a \in {App1} |-> Str("2024-01-01")]),
     Dict([a \in {DiscordKey} |-> IsoFormat(1)])}
LoadedValues == {Absent, Null, Str("nope"), EmptyList} \cup LoadedMappings

\* the section holding the keys given a value
Section(entries) ==
    Dict([j \in {k \in DOMAIN entries : entries[k] # Absent} |-> entries[j]])

\* {"learning": {"pending": ..., "shown_session": ..., "shown_today": ...}}
LearningDoc(pending, shown_session, shown_today) ==
    Dict([k \in {"learning"} |->
        Section([j \in {"pending", "shown_session", "shown_today"} |->
                    CASE j = "pending" -> pending
                      [] j = "shown_session" -> shown_session
                      [] j = "shown_today" -> shown_today])])

NormalizeInit ==
    /\ Idle
    /\ last = NoLast
    /\ granted = {}
    /\ seen = <<>>
    /\ fs = NoFs
    /\ \E pending \in {Absent, Str("nope"), EmptyDict},
          shown_session \in LoadedValues, shown_today \in LoadedValues :
            config = LearningDoc(pending, shown_session, shown_today)

\* config = normalize_config(config)
Normalize_config ==
    /\ ~normalize_config(config).raised
    /\ config' = normalize_config(config).value
    /\ last' = [op |-> "normalize", doc |-> config]
    /\ UNCHANGED <<granted, seen, fs, loopvars>>

NormalizeNext == Normalize_config

NormalizeSpec == NormalizeInit /\ [][NormalizeNext]_vars

\* the value a learning key holds in the document, Absent when it has none
LearningValue(doc, j) == GetOr(GetOr(doc, "learning", EmptyDict), j, Absent)

\* C36: after normalize_config, shown_session is the document's shown_today
\* mapping when the document's shown_session is absent or no mapping and its
\* shown_today is a mapping, and is empty when neither is a mapping; the
\* result has no shown_today key.
C36_LegacyShownTodayMigrated ==
    last.op = "normalize"
        => LET shown_session == LearningValue(last.doc, "shown_session")
               shown_today == LearningValue(last.doc, "shown_today")
           IN  /\ (~IsDict(shown_session) /\ IsDict(shown_today))
                    => ShownOf(config) = shown_today
               /\ (~IsDict(shown_session) /\ ~IsDict(shown_today))
                    => ShownOf(config) = EmptyDict
               /\ ~Has(Get(config, "learning"), "shown_today")

-----------------------------------------------------------------------------
(* LockSpec: acquire_single_instance called by a process, with kernel32 and
   another instance of the program as its environment, as the tests of app.py
   call it with a stand-in for kernel32 *)

\* GetLastError() after CreateMutexW returned a handle to a mutex that existed
ERROR_ALREADY_EXISTS == 183
\* GetLastError() after a CreateMutexW that returned NULL: ERROR_ACCESS_DENIED
ERROR_ACCESS_DENIED == 5

\* What kernel32 does to one call of acquire_single_instance:
\*   create      CreateMutexW returns a handle, or NULL
\*   last_error  GetLastError returns, or raises
\*   close       CloseHandle returns, or raises and leaves the handle open
KernelOutcomes ==
    [create : {"handle", "null"}, last_error : {"returns", "raises"},
     close : {"ok", "raises"}]

\* kernel32 as the process sees it: whether another instance holds the named
\* mutex, the handles to it this process has open, the next handle value,
\* and the number of CreateMutexW calls made
NoKernel(other) == [other |-> other, open |-> {}, next |-> 1, creates |-> 0]

\* the named mutex exists: somebody has a handle to it
MutexExists(kernel) == kernel.other \/ kernel.open # {}

\* kernel32.CreateMutexW(None, True, f"Local\\{name}"): the handle (0 for NULL),
\* the thread's last error and the kernel afterwards
CreateMutexW(kernel, outcome) ==
    IF outcome.create = "null"
    THEN [handle |-> 0, last_error |-> ERROR_ACCESS_DENIED,
          kernel |-> [kernel EXCEPT !.creates = @ + 1]]
    ELSE [handle |-> kernel.next,
          last_error |-> IF MutexExists(kernel) THEN ERROR_ALREADY_EXISTS ELSE 0,
          kernel |-> [kernel EXCEPT !.open = @ \cup {kernel.next},
                                    !.next = @ + 1, !.creates = @ + 1]]

\* kernel32.CloseHandle(handle) under the outcome
CloseHandle(kernel, handle, outcome) ==
    IF outcome.close = "ok" THEN [kernel EXCEPT !.open = @ \ {handle}] ELSE kernel

\* acquire_single_instance lines 58-83: the mutex is requested; made is what
\* CreateMutexW returned
MutexRequested(made, outcome) ==
    IF made.handle = 0
    THEN [ret |-> TRUE, handle |-> Null, kernel |-> made.kernel,
          closed |-> {}, log |-> <<"single_instance_mutex_failed">>]
    ELSE IF outcome.last_error = "returns" /\ made.last_error = ERROR_ALREADY_EXISTS
    THEN [ret |-> FALSE, handle |-> Null,
          kernel |-> CloseHandle(made.kernel, made.handle, outcome),
          closed |-> {made.handle}, log |-> <<>>]
    ELSE [ret |-> TRUE, handle |-> Num(made.handle), kernel |-> made.kernel,
          closed |-> {}, log |-> <<>>]

\* an acquire_single_instance that does not look at the recorded handle
acquire_single_instance_unrecorded(windows, handle, kernel, outcome) ==
    IF ~windows
    THEN [ret |-> TRUE, handle |-> handle, kernel |-> kernel, closed |-> {},
          log |-> <<>>]
    ELSE MutexRequested(CreateMutexW(kernel, outcome), outcome)

\* acquire_single_instance(): the return value, _SINGLE_INSTANCE_HANDLE and the
\* kernel afterwards, the handles CloseHandle was called on, and the log
acquire_single_instance(windows, handle, kernel, outcome) ==
    IF ~windows
    THEN [ret |-> TRUE, handle |-> handle, kernel |-> kernel, closed |-> {},
          log |-> <<>>]
    ELSE IF handle # Null
    THEN [ret |-> TRUE, handle |-> handle, kernel |-> kernel, closed |-> {},
          log |-> <<>>]
    ELSE MutexRequested(CreateMutexW(kernel, outcome), outcome)

\* the process: whether _is_windows() holds, and _SINGLE_INSTANCE_HANDLE
LockInit ==
    /\ config = default_config
    /\ last = NoLast
    /\ granted = {}
    /\ seen = <<>>
    /\ fs = NoFs
    /\ hist = NoHist
    /\ \E windows \in BOOLEAN, other \in BOOLEAN :
          /\ loop = [pc |-> "lock", windows |-> windows,
                     single_instance_handle |-> Null, calls |-> 0]
          /\ env = NoKernel(other)

\* the process calls acquire_single_instance(); r is what the call does
Acquired(r, outcome) ==
    /\ loop' = [loop EXCEPT !.single_instance_handle = r.handle, !.calls = @ + 1]
    /\ env' = r.kernel
    /\ last' = [op |-> "acquire", ret |-> r.ret, closed |-> r.closed, log |-> r.log,
                outcome |-> outcome, handle_before |-> loop.single_instance_handle,
                kernel_before |-> env, kernel_after |-> r.kernel]

Acquire(outcome) ==
    /\ loop.pc = "lock"
    /\ loop.calls < MaxCalls
    /\ Acquired(acquire_single_instance(loop.windows, loop.single_instance_handle,
                                        env, outcome), outcome)
    /\ UNCHANGED <<config, granted, seen, fs, hist>>

\* another instance of the program starts and creates the mutex, which it can
\* only when nobody has a handle to it
OtherStarts ==
    /\ loop.pc = "lock"
    /\ loop.windows
    /\ ~MutexExists(env)
    /\ env' = [env EXCEPT !.other = TRUE]
    /\ UNCHANGED <<config, last, granted, seen, fs, loop, hist>>

\* the other instance exits and its handle is closed
OtherExits ==
    /\ loop.pc = "lock"
    /\ env.other
    /\ env' = [env EXCEPT !.other = FALSE]
    /\ UNCHANGED <<config, last, granted, seen, fs, loop, hist>>

LockNext ==
    \/ \E outcome \in KernelOutcomes : Acquire(outcome)
    \/ OtherStarts
    \/ OtherExits

LockSpec == LockInit /\ [][LockNext]_vars

\* C33: acquire_single_instance returns True without a kernel call off
\* Windows; on Windows with a handle recorded it returns True without another
\* CreateMutexW; with none recorded and a CreateMutexW that returned a handle,
\* it returns False when GetLastError reports that the mutex existed, after
\* calling CloseHandle on that handle and recording nothing, and returns True
\* with the handle recorded when the mutex was created.
C33_SingleInstance ==
    last.op = "acquire"
        => LET before == last.kernel_before
               after == last.kernel_after
               made == before.next
               asked == after.creates = before.creates + 1
           IN  /\ ~loop.windows
                    => last.ret /\ after = before /\ last.closed = {}
                       /\ loop.single_instance_handle = last.handle_before
               /\ (loop.windows /\ last.handle_before # Null)
                    => /\ last.ret
                       /\ after = before
                       /\ loop.single_instance_handle = last.handle_before
               /\ (loop.windows /\ last.handle_before = Null)
                    => asked
               /\ (loop.windows /\ last.handle_before = Null
                     /\ last.outcome.create = "handle"
                     /\ last.outcome.last_error = "returns")
                    => IF MutexExists(before)
                       THEN /\ ~last.ret
                            /\ last.closed = {made}
                            /\ loop.single_instance_handle = Null
                            /\ last.outcome.close = "ok" => made \notin after.open
                       ELSE /\ last.ret
                            /\ last.closed = {}
                            /\ loop.single_instance_handle = Num(made)
                            /\ made \in after.open

\* the other instance held the mutex at the first call, which returned False
\* and closed its handle; it exited, the second call created the mutex, and
\* the third returned True on the recorded handle
C33_Witness ==
    /\ last.op = "acquire"
    /\ loop.calls = 3
    /\ last.ret
    /\ last.handle_before = Num(2)
    /\ loop.single_instance_handle = Num(2)
    /\ env.open = {2}
    /\ env.creates = 2
    /\ ~env.other

-----------------------------------------------------------------------------
(* UrlSpec: _ensure_client_param applied to the endpoint text, as
   _send_xs_notification applies it to ws_url on every call *)

\* the pieces of a URL's text: "x" stands for any stretch of other characters
UrlPieces == {UrlBase, "?", "&", "client=", "x"}

\* the texts of at most MaxUrlLen pieces
UrlTexts == UNION {[1..n -> UrlPieces] : n \in 0..MaxUrlLen}

UrlInit ==
    /\ config = default_config
    /\ last = NoLast
    /\ granted = {}
    /\ seen = <<>>
    /\ fs = NoFs
    /\ env = NoEnv
    /\ hist = NoHist
    /\ loop \in {[pc |-> "url", ws_url |-> u] : u \in UrlTexts}

\* normalized_url = _ensure_client_param(ws_url); the result is the text the
\* next application gets
Normalize ==
    /\ loop.pc = "url"
    /\ last' = [op |-> "ensure_client_param", ws_url |-> loop.ws_url,
                ret |-> _ensure_client_param(loop.ws_url)]
    /\ loop' = [loop EXCEPT !.ws_url = _ensure_client_param(loop.ws_url)]
    /\ UNCHANGED <<config, granted, seen, fs, env, hist>>

UrlNext == Normalize

UrlSpec == UrlInit /\ [][UrlNext]_vars

\* "client=" in ws_url
ContainsClient(ws_url) == \E i \in 1..Len(ws_url) : ws_url[i] = "client="

\* the number of client parameters of a URL: the places where "client=" follows
\* a "?" or a "&"
ClientParams(ws_url) ==
    Cardinality({i \in 1..(Len(ws_url) - 1) :
                    ws_url[i] \in {"?", "&"} /\ ws_url[i + 1] = "client="})

\* C30 as stated: a URL that contains "client=" is returned unchanged, any
\* other URL gets "?client=<app name>" appended when it has no query string and
\* "&client=<app name>" when it has one; the function is idempotent and its
\* result never has two client parameters.
C30_ContainingClientUnchanged ==
    last.op = "ensure_client_param" =>
        /\ ContainsClient(last.ws_url) => last.ret = last.ws_url
        /\ (~ContainsClient(last.ws_url) /\ ~HasQuery(last.ws_url))
            => last.ret = last.ws_url \o <<"?", "client=", APP_NAME>>
        /\ (~ContainsClient(last.ws_url) /\ HasQuery(last.ws_url))
            => last.ret = last.ws_url \o <<"&", "client=", APP_NAME>>
        /\ _ensure_client_param(last.ret) = last.ret
        /\ ClientParams(last.ret) <= 1

\* C30 (amended): a URL in which "client=" follows a "?" or a "&" is returned
\* unchanged, any other URL (one that contains "client=" elsewhere included)
\* gets "?client=<app name>" appended when it has no "?" and
\* "&client=<app name>" when it has one; the function is idempotent and never
\* adds a client parameter to a URL that has one: the result has the client
\* parameters of the input, or exactly one when the input had none.
C30_ClientParamUnchanged ==
    last.op = "ensure_client_param" =>
        /\ ClientParams(last.ws_url) >= 1 => last.ret = last.ws_url
        /\ (ClientParams(last.ws_url) = 0 /\ ~HasQuery(last.ws_url))
            => last.ret = last.ws_url \o <<"?", "client=", APP_NAME>>
        /\ (ClientParams(last.ws_url) = 0 /\ HasQuery(last.ws_url))
            => last.ret = last.ws_url \o <<"&", "client=", APP_NAME>>
        /\ _ensure_client_param(last.ret) = last.ret
        /\ ClientParams(last.ret) = MaxOf(ClientParams(last.ws_url), 1)

\* the function is applied to its own result for a URL with a query string and
\* returns it unchanged
C30_Witness ==
    /\ last.op = "ensure_client_param"
    /\ last.ws_url = <<UrlBase, "?", "x", "&", "client=", APP_NAME>>
    /\ last.ret = last.ws_url

-----------------------------------------------------------------------------
(* SafeSpec: the three numeric settings run_bridge reads from the config,
   passed through _safe_poll_interval, _safe_notification_timeout and
   _safe_notification_opacity *)

\* what config.get(...) yields for a setting: None (missing or null), a bool, a
\* text, a list, an object, a number of tenths between -MaxNum and MaxNum, or
\* one of the floats json.loads makes of NaN, Infinity and -Infinity
ConfiguredValues ==
    {Null, Bool(TRUE), Bool(FALSE), EmptyList, EmptyDict, NaN, Inf(1), Inf(-1)}
        \cup {Str(x) : x \in {"bad", "nan", "inf", "-inf", "0.5"}}
        \cup {Num(n) : n \in (0 - MaxNum)..MaxNum}

SafeInit ==
    /\ config = default_config
    /\ last = NoLast
    /\ granted = {}
    /\ seen = <<>>
    /\ fs = NoFs
    /\ env = NoEnv
    /\ hist = NoHist
    /\ loop \in {[pc |-> "value", value |-> x] : x \in ConfiguredValues}

\* the call of one of the three functions on the configured value
Clamped(setting, ret) ==
    /\ loop.pc = "value"
    /\ last' = [op |-> "safe_float", setting |-> setting, value |-> loop.value,
                ret |-> ret]
    /\ UNCHANGED <<config, granted, seen, fs, loop, env, hist>>

\* poll_delay = _safe_poll_interval(config.get("poll_interval_seconds"))
SafePollInterval == Clamped("poll_interval_seconds", _safe_poll_interval(loop.value))
\* notification_timeout = _safe_notification_timeout(...)
SafeNotificationTimeout ==
    Clamped("notification_timeout_seconds", _safe_notification_timeout(loop.value))
\* notification_opacity = _safe_notification_opacity(...)
SafeNotificationOpacity ==
    Clamped("notification_opacity", _safe_notification_opacity(loop.value))

SafeNext == SafePollInterval \/ SafeNotificationTimeout \/ SafeNotificationOpacity

SafeSpec == SafeInit /\ [][SafeNext]_vars

\* the documented default of a setting, in tenths
DefaultOf(setting) ==
    CASE setting = "poll_interval_seconds" -> Num(10)
      [] setting = "notification_timeout_seconds" -> Num(30)
      [] setting = "notification_opacity" -> Num(6)

\* the float x is positive; x lies in [0, 1]
Positive(x) == FloatGt(x, 0)
InUnitInterval(x) == ~FloatLt(x, 0) /\ ~FloatGt(x, 10) /\ x.t # "nan"

\* the configured value is a number the setting accepts
ValidFor(setting, value) ==
    /\ value.t = "num"
    /\ IF setting = "notification_opacity"
       THEN value.v >= 0 /\ value.v <= 10
       ELSE value.v > 0

\* C29: for every configured value the effective poll interval and timeout are
\* > 0 and the effective opacity lies in [0, 1]; a number the setting accepts is
\* passed through unchanged (0 is accepted as opacity only), and a missing,
\* null, non-number, negative or too large value yields the default.
C29_EffectiveValuesInRange ==
    last.op = "safe_float" =>
        /\ IF last.setting = "notification_opacity"
           THEN InUnitInterval(last.ret) ELSE Positive(last.ret)
        /\ ValidFor(last.setting, last.value) => last.ret = last.value
        /\ ( \/ last.value.t \in {"null", "list", "dict", "nan"}
             \/ (last.value.t = "str" /\ last.value.v \in {"bad", "nan"})
             \/ (last.value.t = "num" /\ ~ValidFor(last.setting, last.value)) )
            => last.ret = DefaultOf(last.setting)

====
